---- MODULE Spec2Model ----
(***************************************************************************)
(* Model of the authenticated-request wrapper fetchWithAuth (utils/api)    *)
(* and of the session provider (supabase.auth) it talks to.                *)
(*                                                                         *)
(* Every await of fetchWithAuth is a suspension point: an action of the    *)
(* model resumes one call with the result of the awaited operation and     *)
(* runs the code up to the next await, the return or the throw.            *)
(***************************************************************************)
EXTENDS Naturals, Sequences, FiniteSets, TLC

\* Number of fetchWithAuth calls that may be in flight together.
NumCalls == 2

Calls == 1..NumCalls

\* Access tokens the provider can hand out; "" is a session whose
\* access_token is the empty string.
Tokens == {"tokA", "tokB"}

\* HTTP statuses the backend answers with.
Statuses == {200, 401, 404, 500}

Unauthorized == 401

\* The provider holds no session (data.session is null).
NoSession == [present |-> FALSE]

SessionOf(t) == [present |-> TRUE, access_token |-> t]

Sessions == {NoSession} \cup {SessionOf(t) : t \in Tokens \cup {""}}

\* Messages of the errors fetchWithAuth constructs itself.
SessionUnavailable == "Failed to get session. Please login again."

NoCredential == "No access token available. Please login again."

SessionExpired == "Session expired. Please login again."

\* Errors that are not constructed by fetchWithAuth: an exception raised by
\* a supabase.auth method, and the rejection of fetch().
ProviderError == "ProviderError"

NetworkError == "NetworkError"

Pending == [kind |-> "pending"]

Returned(r) == [kind |-> "returned", response |-> r]

Thrown(e) == [kind |-> "thrown", error |-> e]

\* The value of a local variable that has not been assigned.
None == "none"

\* error: null, and the AuthError of an error result.
Null == "null"

AuthError == "AuthError"

\* What an awaited supabase.auth call settled with: nothing yet, the
\* { data: { session }, error } it resolved with, or a rejection.
Unsettled == [state |-> "unsettled", session |-> NoSession, error |-> Null]

Resolved(s, e) == [state |-> "resolved", session |-> s, error |-> e]

Rejected == [state |-> "rejected", session |-> NoSession, error |-> ProviderError]

\* The results refreshSession resolves with: a new session, no session
\* with a null error, or an error result.
RefreshResults ==
    {Resolved(SessionOf(t), Null) : t \in Tokens}
        \cup {Resolved(NoSession, Null), Resolved(NoSession, AuthError)}

\* The { error } signOut resolves with.
SignOutResults == {Resolved(NoSession, Null), Resolved(NoSession, AuthError)}

VARIABLES
    session,        \* the session stored by the provider
    pc,             \* per call: the await the call is suspended at
    accessToken,    \* per call: the local variable accessToken
    sent,           \* per call: the headers of each fetch() issued
    received,       \* per call: what each fetch() settled with
    response,       \* per call: the local variable response
    sessionRes,     \* per call: what getSession settled with
    refreshRes,     \* per call: what refreshSession settled with
    signOutRes,     \* per call: what signOut settled with
    refreshCalls,   \* per call: invocations of supabase.auth.refreshSession
    signOutCalls,   \* per call: invocations of supabase.auth.signOut
    outcome,        \* per call: pending, the returned response, or the error
    options,        \* per call: the entry point and the options it was given
    wire,           \* per call: each request as fetch() puts it on the wire
    app,            \* the App component's accessToken and userId state
    srvPc,          \* server: where the request being served is
    srvRequest,     \* server: the route and Authorization header received
    srvAuth,        \* server: what verifyAuth returned
    srvResponse,    \* server: the status and body kind of the response
    kv,             \* server: the key-value store, stored keys to values
    req,            \* server: per handler, the request it is serving
    nextId          \* server: identifiers crypto.randomUUID() has returned

\* The state of the client: the provider, the calls and the App.
clientVars == <<session, pc, accessToken, sent, received, response, sessionRes,
                refreshRes, signOutRes, refreshCalls, signOutCalls, outcome,
                options, wire, app>>

\* The request verifyAuth is looking at.
authVars == <<srvPc, srvRequest, srvAuth, srvResponse>>

\* The store and the requests of the routes that use it.
storeVars == <<kv, req, nextId>>

\* The state of the backend (supabase/functions/server).
serverVars == <<authVars, storeVars>>

vars == <<session, pc, accessToken, sent, received, response, sessionRes,
          refreshRes, signOutRes, refreshCalls, signOutCalls, outcome,
          options, wire, app, serverVars>>

\* `Bearer ${accessToken}`
Bearer(t) == "Bearer " \o t

\* The headers object built around a token (the caller's own headers are
\* spread first and overridden by these two keys).
AuthHeaders(t) ==
    [Authorization |-> Bearer(t), ContentType |-> "application/json"]

\* Faulty variant of Truthy: only the session is tested, so an empty
\* access token counts as a credential.
Truthy_SessionOnly(s) == s.present

\* JavaScript truthiness of sessionData.session?.access_token.
Truthy(s) == s.present /\ s.access_token # ""

\* The n-th Response object fetch() resolved with for a call.
Resp(status, n) == [ok |-> TRUE, status |-> status, serial |-> n]

\* The rejection of the n-th fetch().
FetchRejected(n) == [ok |-> FALSE, status |-> 0, serial |-> n]

NoResponse == [ok |-> FALSE, status |-> 0, serial |-> 0]

NetCalls(c) == Len(sent[c])

(***************************************************************************)
(* Requests: the options a call is given and what fetch() sends for them.  *)
(* A headers object is the sequence of its <<name, value>> properties in   *)
(* insertion order; property names are case-sensitive.                     *)
(***************************************************************************)
\* An absent value: options.method, options.body or a parameter not given.
Undefined == [type |-> "undefined", str |-> "", props |-> <<>>]

\* obj[name] = value: an existing property keeps its place.
SetProp(obj, name, value) ==
    IF \E i \in 1..Len(obj) : obj[i][1] = name
      THEN [i \in 1..Len(obj) |->
               IF obj[i][1] = name THEN <<name, value>> ELSE obj[i]]
      ELSE Append(obj, <<name, value>>)

\* { ...options.headers, 'Authorization': `Bearer ${t}`,
\*   'Content-Type': 'application/json' }
MergedHeaders(callerHeaders, t) ==
    SetProp(SetProp(callerHeaders, "Authorization", Bearer(t)),
            "Content-Type", "application/json")

\* Header names as fetch() normalises them (byte-lowercase).
LowerCase(name) ==
    CASE name = "Authorization" -> "authorization"
      [] name = "Content-Type" -> "content-type"
      [] name = "X-Trace" -> "x-trace"
      [] OTHER -> name

\* The header list fetch() fills from a headers object: every property is
\* appended under its lower-cased name, and values appended under the same
\* name are combined with ", ".
RECURSIVE WireHeaders(_)
WireHeaders(obj) ==
    IF obj = <<>> THEN <<>>
    ELSE LET rest == WireHeaders(SubSeq(obj, 1, Len(obj) - 1))
             name == LowerCase(obj[Len(obj)][1])
             value == obj[Len(obj)][2]
         IN  IF \E i \in 1..Len(rest) : rest[i][1] = name
               THEN [i \in 1..Len(rest) |->
                        IF rest[i][1] = name
                          THEN <<name, rest[i][2] \o ", " \o value>>
                          ELSE rest[i]]
               ELSE Append(rest, <<name, value>>)

\* headers.get(name) on the wire: the combined value, or "" when absent.
HeaderValue(headers, name) ==
    IF \E i \in 1..Len(headers) : headers[i][1] = name
      THEN headers[CHOOSE i \in 1..Len(headers) : headers[i][1] = name][2]
      ELSE ""

\* fetch(url, { ...options, headers }): method defaults to GET.
FetchRequest(o, headers) ==
    [ method |-> IF o.method = "" THEN "GET" ELSE o.method,
      url |-> o.url,
      body |-> o.body,
      headers |-> WireHeaders(headers) ]

\* `https://${projectId}.supabase.co/functions/v1/make-server-b017b546${path}`
EndpointUrl(path) ==
    "https://projectId.supabase.co/functions/v1/make-server-b017b546" \o path

\* JavaScript values passed as a request body: a type, the text of a
\* primitive, and the <<name, string value>> properties of an object.
JsNumber(text) == [type |-> "number", str |-> text, props |-> <<>>]

JsBoolean(text) == [type |-> "boolean", str |-> text, props |-> <<>>]

JsString(text) == [type |-> "string", str |-> text, props |-> <<>>]

JsObject(props) == [type |-> "object", str |-> "", props |-> props]

\* The truthiness the conditional operator tests.
JsTruthy(v) ==
    CASE v.type = "undefined" -> FALSE
      [] v.type = "number" -> v.str \notin {"0", "NaN"}
      [] v.type = "boolean" -> v.str = "true"
      [] v.type = "string" -> v.str # ""
      [] OTHER -> TRUE

Quote(text) == "\"" \o text \o "\""

RECURSIVE JsonProps(_)
JsonProps(props) ==
    IF props = <<>> THEN ""
    ELSE LET head == Quote(props[1][1]) \o ":" \o Quote(props[1][2])
         IN  IF Len(props) = 1 THEN head
             ELSE head \o "," \o JsonProps(Tail(props))

\* JSON.stringify(v) for a value that is not undefined.
JsonStringify(v) ==
    CASE v.type = "string" -> Quote(v.str)
      [] v.type = "object" -> "{" \o JsonProps(v.props) \o "}"
      [] OTHER -> v.str

\* body ? JSON.stringify(body) : undefined
EncodeBody(body) ==
    IF JsTruthy(body) THEN JsString(JsonStringify(body)) ELSE Undefined

\* The options of a call: entry is the exported function that was called,
\* param the body parameter it was given.
Options(entry, method, url, headers, body, param) ==
    [ entry |-> entry, method |-> method, url |-> url, headers |-> headers,
      body |-> body, param |-> param ]

NoOptions == Options("", "", "", <<>>, Undefined, Undefined)

\* fetchWithAuth(url): options = {}.
DefaultOptions ==
    Options("fetchWithAuth", "", EndpointUrl("/posts"), <<>>, Undefined,
            Undefined)

(***************************************************************************)
(* The App component: its accessToken / userId state and the listener it   *)
(* registers with supabase.auth.onAuthStateChange.                         *)
(***************************************************************************)
\* session.user.id of the sessions of this browser.
UserId == "user-1"

SignedOutApp == [accessToken |-> Null, userId |-> Null]

\* checkSession on mount: the state is taken from the stored session.
CheckSession(s) ==
    IF s.present THEN [accessToken |-> s.access_token, userId |-> UserId]
    ELSE SignedOutApp

\* The onAuthStateChange callback.
OnAuthStateChange(a, event, s) ==
    IF event = "SIGNED_IN" \/ event = "TOKEN_REFRESHED"
      THEN IF s.present
             THEN [accessToken |-> s.access_token, userId |-> UserId]
             ELSE a
    ELSE IF event = "SIGNED_OUT" THEN SignedOutApp
    ELSE a

\* if (!accessToken || !userId) the App renders AuthPage.
ShowsAuthPage(a) ==
    a.accessToken = Null \/ a.accessToken = "" \/ a.userId = Null
        \/ a.userId = ""

(***************************************************************************)
(* The backend's data.  Every record lives in one key-value store          *)
(* (kv_store.tsx) under a key `kind:part:part`; a key is modelled as the   *)
(* sequence of its parts between the colons, a prefix as the sequence of   *)
(* its parts with the last one possibly incomplete ("" after a final       *)
(* colon).  The identifiers of the model hold no colon and none of them    *)
(* is the beginning of another one.  Timestamps are left out of the        *)
(* stored values.                                                          *)
(***************************************************************************)
\* Requests the backend may be serving at the same time: one per call in
\* flight.
Handlers == Calls

\* The users the auth service verifies a token for; user-3 has signed in
\* but has no stored profile yet.
Users == {UserId, "user-2", "user-3"}

SeedUserIds ==
    <<"seed-user-1", "seed-user-2", "seed-user-3", "seed-user-4",
      "seed-user-5">>

\* The entries of samplePosts: the user each sample post is attributed to.
SamplePosts == SeedUserIds

\* The identifiers crypto.randomUUID() returns, in the order it returns
\* them: no identifier is returned twice.
Uuids ==
    <<"uuid-01", "uuid-02", "uuid-03", "uuid-04", "uuid-05", "uuid-06",
      "uuid-07", "uuid-08", "uuid-09", "uuid-10", "uuid-11", "uuid-12",
      "uuid-13", "uuid-14", "uuid-15", "uuid-16", "uuid-17", "uuid-18",
      "uuid-19", "uuid-20">>

\* The longest post content create-post accepts.
MaxPostLength == 280

\* Posts and comments the create-post and add-comment requests may write
\* in one run.
MaxCreated == 2

\* The content field of a request body: a string, given by the number of
\* its leading whitespace characters, the length of what trim() leaves,
\* and the number of its trailing whitespace characters; a missing or
\* falsy value; or a truthy value that is not a string.
Text(lead, body, trail) ==
    [kind |-> "string", lead |-> lead, body |-> body, trail |-> trail]

NoText == [kind |-> "undefined", lead |-> 0, body |-> 0, trail |-> 0]

NotAString == [kind |-> "other", lead |-> 0, body |-> 0, trail |-> 0]

\* content.length
Length(t) == t.lead + t.body + t.trail

\* content.trim()
Trim(t) == Text(0, t.body, 0)

\* !content
Falsy(t) == t.kind = "undefined" \/ (t.kind = "string" /\ Length(t) = 0)

\* The values the routes store.
Val(kind, id, userId, postId, followingId, content) ==
    [kind |-> kind, id |-> id, userId |-> userId, postId |-> postId,
     followingId |-> followingId, content |-> content]

\* What kv.get yields for a key that is not stored.
NullValue == Val("null", "", "", "", "", NoText)

UserValue(id) == Val("user", id, "", "", "", NoText)

PostValue(id, userId, content) == Val("post", id, userId, "", "", content)

LikeValue(postId, userId) == Val("like", "", userId, postId, "", NoText)

CommentValue(id, postId, userId, content) ==
    Val("comment", id, userId, postId, "", content)

\* { followerId, followingId }
FollowValue(followerId, followingId) ==
    Val("follow", "", followerId, "", followingId, NoText)

SeedDoneValue == Val("done", "", "", "", "", NoText)

\* The keys the routes build.
UserKey(id) == <<"user", id>>

PostKey(id) == <<"post", id>>

LikeKey(postId, userId) == <<"like", postId, userId>>

CommentKey(postId, commentId) == <<"comment", postId, commentId>>

FollowKey(followerId, targetId) == <<"follow", followerId, targetId>>

SeedDoneKey == <<"seed", "users", "done">>

\* The operations of the key-value store.
KvGet(store, key) == IF key \in DOMAIN store THEN store[key] ELSE NullValue

KvSet(store, key, value) ==
    [k \in DOMAIN store \cup {key} |-> IF k = key THEN value ELSE store[k]]

KvDel(store, key) == [k \in DOMAIN store \ {key} |-> store[k]]

KvMdel(store, keys) == [k \in DOMAIN store \ keys |-> store[k]]

\* A string begins with a prefix (identifiers that do not begin one
\* another: the prefix is empty or the whole string).
StartsWith(s, prefix) == prefix = "" \/ prefix = s

HasPrefix(key, prefix) ==
    /\ Len(prefix) <= Len(key)
    /\ \A i \in 1..(Len(prefix) - 1) : key[i] = prefix[i]
    /\ StartsWith(key[Len(prefix)], prefix[Len(prefix)])

\* The values stored under the keys that begin with the prefix.
KvGetByPrefix(store, prefix) ==
    {store[k] : k \in {x \in DOMAIN store : HasPrefix(x, prefix)}}

\* The store the model starts from: user-1 and user-2 have signed up, and
\* user-1 has written post-1.
InitialStore ==
    KvSet(KvSet(KvSet(<<>>, UserKey(UserId), UserValue(UserId)),
                UserKey("user-2"), UserValue("user-2")),
          PostKey("post-1"), PostValue("post-1", UserId, Text(0, 1, 0)))

\* The response of a route: the status, what the body says, and the two
\* counts of a profile's stats.
Reply(status, body) ==
    [status |-> status, body |-> body, followers |-> 0, following |-> 0]

NoReply == Reply(0, "")

\* A handler invocation: the route, what verifyAuth returned, the :id
\* parameter, the content of the body, and the handler's local variables.
Request(route, auth, param, content) ==
    [pc |-> "started", route |-> route, auth |-> auth, param |-> param,
     content |-> content, uuid |-> "", post |-> NullValue,
     existing |-> FALSE, likes |-> {}, comments |-> {}, followers |-> {},
     i |-> 0, response |-> NoReply]

IdleRequest ==
    [Request("", [user |-> Null, error |-> Null], "", NoText)
        EXCEPT !.pc = "idle"]

\* The handler has returned: its local variables are gone, what it was
\* asked and what it answered is kept.
Responded(r, status, body) ==
    [Request(r.route, r.auth, r.param, r.content)
        EXCEPT !.pc = "responded", !.response = Reply(status, body)]

\* The server before any request: nothing received, verified or answered.
NoRequest == [route |-> "", authHeader |-> <<>>]

NoAuthResult == [user |-> Null, error |-> Null]

NoServerResponse == [status |-> 0, body |-> ""]

Init ==
    /\ session \in Sessions
    /\ pc = [c \in Calls |-> "idle"]
    /\ accessToken = [c \in Calls |-> None]
    /\ sent = [c \in Calls |-> <<>>]
    /\ received = [c \in Calls |-> <<>>]
    /\ response = [c \in Calls |-> NoResponse]
    /\ sessionRes = [c \in Calls |-> Unsettled]
    /\ refreshRes = [c \in Calls |-> Unsettled]
    /\ signOutRes = [c \in Calls |-> Unsettled]
    /\ refreshCalls = [c \in Calls |-> 0]
    /\ signOutCalls = [c \in Calls |-> 0]
    /\ outcome = [c \in Calls |-> Pending]
    /\ options = [c \in Calls |-> NoOptions]
    /\ wire = [c \in Calls |-> <<>>]
    /\ app = CheckSession(session)
    /\ srvPc = "idle"
    /\ srvRequest = NoRequest
    /\ srvAuth = NoAuthResult
    /\ srvResponse = NoServerResponse
    /\ kv = InitialStore
    /\ req = [h \in Handlers |-> IdleRequest]
    /\ nextId = 0

\* fetchWithAuth is called with options o and suspends on
\* supabase.auth.getSession().
Invoke(c, o) ==
    /\ pc[c] = "idle"
    /\ pc' = [pc EXCEPT ![c] = "getSession"]
    /\ options' = [options EXCEPT ![c] = o]
    /\ UNCHANGED <<session, accessToken, sent, received, response, sessionRes,
                   refreshRes, signOutRes, refreshCalls, signOutCalls, outcome,
                   wire, app>>
    /\ UNCHANGED serverVars

\* fetchWithAuth(url) is called without options (options = {}).
Call(c) == Invoke(c, DefaultOptions)

\* fetchWithAuth(url, { headers }) is called with the caller's own headers.
FetchWithAuth(c, path, headers) ==
    Invoke(c, Options("fetchWithAuth", "", EndpointUrl(path), headers,
                      Undefined, Undefined))

PostWithAuth(c, path, body) ==
    Invoke(c, Options("postWithAuth", "POST", EndpointUrl(path),
                      <<<<"Content-Type", "application/json">>>>,
                      EncodeBody(body), body))

GetWithAuth(c, path) ==
    Invoke(c, Options("getWithAuth", "GET", EndpointUrl(path), <<>>,
                      Undefined, Undefined))

DeleteWithAuth(c, path) ==
    Invoke(c, Options("deleteWithAuth", "DELETE", EndpointUrl(path), <<>>,
                      Undefined, Undefined))

PutWithAuth(c, path, body) ==
    Invoke(c, Options("putWithAuth", "PUT", EndpointUrl(path),
                      <<<<"Content-Type", "application/json">>>>,
                      EncodeBody(body), body))

\* The results getSession resolves with: the stored session, or an error
\* result.
GetSessionResults == {Resolved(session, Null), Resolved(NoSession, AuthError)}

\* Faulty variant of GetSessionReturn: sessionError is not tested.
GetSessionReturn_IgnoreError(c, r) ==
    /\ pc[c] = "getSession"
    /\ sessionRes' = [sessionRes EXCEPT ![c] = r]
    /\ IF ~Truthy(r.session)
         THEN /\ outcome' = [outcome EXCEPT ![c] = Thrown(NoCredential)]
              /\ pc' = [pc EXCEPT ![c] = "done"]
              /\ UNCHANGED <<accessToken, sent, wire>>
         ELSE /\ accessToken' = [accessToken EXCEPT ![c] = r.session.access_token]
              /\ sent' = [sent EXCEPT ![c] =
                             Append(@, AuthHeaders(r.session.access_token))]
              /\ wire' = [wire EXCEPT ![c] =
                    Append(@, FetchRequest(options[c],
                        MergedHeaders(options[c].headers,
                                      r.session.access_token)))]
              /\ pc' = [pc EXCEPT ![c] = "fetch1"]
              /\ UNCHANGED outcome
    /\ UNCHANGED <<session, received, response, refreshRes, signOutRes,
                   refreshCalls, signOutCalls>>
    /\ UNCHANGED <<options, app>>
    /\ UNCHANGED serverVars

\* getSession resolves with r = { data: { session }, error }.
GetSessionReturn(c, r) ==
    /\ pc[c] = "getSession"
    /\ sessionRes' = [sessionRes EXCEPT ![c] = r]
    /\ IF r.error # Null
         THEN /\ outcome' = [outcome EXCEPT ![c] = Thrown(SessionUnavailable)]
              /\ pc' = [pc EXCEPT ![c] = "done"]
              /\ UNCHANGED <<accessToken, sent, wire>>
         ELSE IF ~Truthy(r.session)
         THEN /\ outcome' = [outcome EXCEPT ![c] = Thrown(NoCredential)]
              /\ pc' = [pc EXCEPT ![c] = "done"]
              /\ UNCHANGED <<accessToken, sent, wire>>
         ELSE /\ accessToken' = [accessToken EXCEPT ![c] = r.session.access_token]
              /\ sent' = [sent EXCEPT ![c] =
                             Append(@, AuthHeaders(r.session.access_token))]
              /\ wire' = [wire EXCEPT ![c] =
                    Append(@, FetchRequest(options[c],
                        MergedHeaders(options[c].headers,
                                      r.session.access_token)))]
              /\ pc' = [pc EXCEPT ![c] = "fetch1"]
              /\ UNCHANGED outcome
    /\ UNCHANGED <<session, received, response, refreshRes, signOutRes,
                   refreshCalls, signOutCalls>>
    /\ UNCHANGED <<options, app>>
    /\ UNCHANGED serverVars

\* getSession rejects: the await rethrows inside fetchWithAuth, which has no
\* try/catch.
GetSessionThrow(c) ==
    /\ pc[c] = "getSession"
    /\ sessionRes' = [sessionRes EXCEPT ![c] = Rejected]
    /\ outcome' = [outcome EXCEPT ![c] = Thrown(ProviderError)]
    /\ pc' = [pc EXCEPT ![c] = "done"]
    /\ UNCHANGED <<session, accessToken, sent, received, response, refreshRes,
                   signOutRes, refreshCalls, signOutCalls>>
    /\ UNCHANGED <<options, wire, app>>
    /\ UNCHANGED serverVars

\* Faulty variant of Fetch1Return: a 401 that arrives while another call is
\* already refreshing waits for that refresh instead of invoking its own.
Fetch1Return_SharedRefresh(c, status) ==
    /\ pc[c] = "fetch1"
    /\ received' = [received EXCEPT ![c] = Append(@, Resp(status, NetCalls(c)))]
    /\ response' = [response EXCEPT ![c] = Resp(status, NetCalls(c))]
    /\ IF status = Unauthorized
         THEN /\ refreshCalls' =
                    IF \E d \in Calls \ {c} : pc[d] = "refreshSession"
                      THEN refreshCalls
                      ELSE [refreshCalls EXCEPT ![c] = @ + 1]
              /\ pc' = [pc EXCEPT ![c] = "refreshSession"]
              /\ UNCHANGED outcome
         ELSE /\ outcome' = [outcome EXCEPT ![c] =
                                Returned(Resp(status, NetCalls(c)))]
              /\ pc' = [pc EXCEPT ![c] = "done"]
              /\ UNCHANGED refreshCalls
    /\ UNCHANGED <<session, accessToken, sent, sessionRes, refreshRes,
                   signOutRes, signOutCalls>>
    /\ UNCHANGED <<options, wire, app>>
    /\ UNCHANGED serverVars

\* Faulty variant of Fetch1Return: a response another call has already
\* returned is handed out again instead of this call's own response.
Fetch1Return_Cached(c, status) ==
    /\ pc[c] = "fetch1"
    /\ received' = [received EXCEPT ![c] = Append(@, Resp(status, NetCalls(c)))]
    /\ response' = [response EXCEPT ![c] = Resp(status, NetCalls(c))]
    /\ IF \E d \in Calls \ {c} : outcome[d].kind = "returned"
         THEN /\ outcome' = [outcome EXCEPT ![c] =
                    outcome[CHOOSE d \in Calls \ {c} :
                                outcome[d].kind = "returned"]]
              /\ pc' = [pc EXCEPT ![c] = "done"]
              /\ UNCHANGED refreshCalls
         ELSE IF status = Unauthorized
         THEN /\ refreshCalls' = [refreshCalls EXCEPT ![c] = @ + 1]
              /\ pc' = [pc EXCEPT ![c] = "refreshSession"]
              /\ UNCHANGED outcome
         ELSE /\ outcome' = [outcome EXCEPT ![c] =
                                Returned(Resp(status, NetCalls(c)))]
              /\ pc' = [pc EXCEPT ![c] = "done"]
              /\ UNCHANGED refreshCalls
    /\ UNCHANGED <<session, accessToken, sent, sessionRes, refreshRes,
                   signOutRes, signOutCalls>>
    /\ UNCHANGED <<options, wire, app>>
    /\ UNCHANGED serverVars

\* Faulty variant of Fetch1Return: every status other than 200 starts the
\* refresh, not only 401.
Fetch1Return_RefreshOnAnyError(c, status) ==
    /\ pc[c] = "fetch1"
    /\ received' = [received EXCEPT ![c] = Append(@, Resp(status, NetCalls(c)))]
    /\ response' = [response EXCEPT ![c] = Resp(status, NetCalls(c))]
    /\ IF status # 200
         THEN /\ refreshCalls' = [refreshCalls EXCEPT ![c] = @ + 1]
              /\ pc' = [pc EXCEPT ![c] = "refreshSession"]
              /\ UNCHANGED outcome
         ELSE /\ outcome' = [outcome EXCEPT ![c] =
                                Returned(Resp(status, NetCalls(c)))]
              /\ pc' = [pc EXCEPT ![c] = "done"]
              /\ UNCHANGED refreshCalls
    /\ UNCHANGED <<session, accessToken, sent, sessionRes, refreshRes,
                   signOutRes, signOutCalls>>
    /\ UNCHANGED <<options, wire, app>>
    /\ UNCHANGED serverVars

\* Faulty variant of Fetch1Return: on a 401 the call looks at the stored
\* session again and, when another call has stored a different credential
\* meanwhile, retries with that one instead of refreshing itself.
Fetch1Return_ReusesStoredSession(c, status) ==
    /\ pc[c] = "fetch1"
    /\ received' = [received EXCEPT ![c] = Append(@, Resp(status, NetCalls(c)))]
    /\ response' = [response EXCEPT ![c] = Resp(status, NetCalls(c))]
    /\ IF status = Unauthorized /\ session.present
            /\ session.access_token # accessToken[c]
         THEN /\ accessToken' = [accessToken EXCEPT ![c] = session.access_token]
              /\ sent' = [sent EXCEPT ![c] =
                             Append(@, AuthHeaders(session.access_token))]
              /\ wire' = [wire EXCEPT ![c] =
                    Append(@, FetchRequest(options[c],
                        MergedHeaders(options[c].headers,
                                      session.access_token)))]
              /\ pc' = [pc EXCEPT ![c] = "fetch2"]
              /\ UNCHANGED <<outcome, refreshCalls>>
         ELSE IF status = Unauthorized
         THEN /\ refreshCalls' = [refreshCalls EXCEPT ![c] = @ + 1]
              /\ pc' = [pc EXCEPT ![c] = "refreshSession"]
              /\ UNCHANGED <<outcome, accessToken, sent, wire>>
         ELSE /\ outcome' = [outcome EXCEPT ![c] =
                                Returned(Resp(status, NetCalls(c)))]
              /\ pc' = [pc EXCEPT ![c] = "done"]
              /\ UNCHANGED <<refreshCalls, accessToken, sent, wire>>
    /\ UNCHANGED <<session, sessionRes, refreshRes, signOutRes, signOutCalls>>
    /\ UNCHANGED <<options, app>>
    /\ UNCHANGED serverVars

\* The first fetch() resolves with a response.
Fetch1Return(c, status) ==
    /\ pc[c] = "fetch1"
    /\ received' = [received EXCEPT ![c] = Append(@, Resp(status, NetCalls(c)))]
    /\ response' = [response EXCEPT ![c] = Resp(status, NetCalls(c))]
    /\ IF status = Unauthorized
         THEN /\ refreshCalls' = [refreshCalls EXCEPT ![c] = @ + 1]
              /\ pc' = [pc EXCEPT ![c] = "refreshSession"]
              /\ UNCHANGED outcome
         ELSE /\ outcome' = [outcome EXCEPT ![c] =
                                Returned(Resp(status, NetCalls(c)))]
              /\ pc' = [pc EXCEPT ![c] = "done"]
              /\ UNCHANGED refreshCalls
    /\ UNCHANGED <<session, accessToken, sent, sessionRes, refreshRes,
                   signOutRes, signOutCalls>>
    /\ UNCHANGED <<options, wire, app>>
    /\ UNCHANGED serverVars

\* Faulty variant of Fetch1Fail: the rejected fetch() is issued again.
Fetch1Fail_Retry(c) ==
    /\ pc[c] = "fetch1"
    /\ received' = [received EXCEPT ![c] = Append(@, FetchRejected(NetCalls(c)))]
    /\ sent' = [sent EXCEPT ![c] = Append(@, AuthHeaders(accessToken[c]))]
    /\ UNCHANGED <<session, pc, accessToken, response, sessionRes, refreshRes,
                   signOutRes, refreshCalls, signOutCalls, outcome>>
    /\ UNCHANGED <<options, wire, app>>
    /\ UNCHANGED serverVars

\* The first fetch() rejects (transport failure).
Fetch1Fail(c) ==
    /\ pc[c] = "fetch1"
    /\ received' = [received EXCEPT ![c] = Append(@, FetchRejected(NetCalls(c)))]
    /\ outcome' = [outcome EXCEPT ![c] = Thrown(NetworkError)]
    /\ pc' = [pc EXCEPT ![c] = "done"]
    /\ UNCHANGED <<session, accessToken, sent, response, sessionRes,
                   refreshRes, signOutRes, refreshCalls, signOutCalls>>
    /\ UNCHANGED <<options, wire, app>>
    /\ UNCHANGED serverVars

\* Faulty variant of RefreshReturn: the retry is sent with the headers of
\* the first attempt, accessToken is not reassigned.
RefreshReturn_StaleToken(c, r) ==
    /\ pc[c] = "refreshSession"
    /\ refreshRes' = [refreshRes EXCEPT ![c] = r]
    /\ IF r.error # Null \/ ~r.session.present
         THEN /\ signOutCalls' = [signOutCalls EXCEPT ![c] = @ + 1]
              /\ pc' = [pc EXCEPT ![c] = "signOut"]
              /\ UNCHANGED <<session, accessToken, sent, wire, app>>
         ELSE /\ session' = r.session
              /\ sent' = [sent EXCEPT ![c] =
                             Append(@, AuthHeaders(accessToken[c]))]
              /\ wire' = [wire EXCEPT ![c] =
                    Append(@, FetchRequest(options[c],
                        MergedHeaders(options[c].headers, accessToken[c])))]
              /\ app' = OnAuthStateChange(app, "TOKEN_REFRESHED", r.session)
              /\ pc' = [pc EXCEPT ![c] = "fetch2"]
              /\ UNCHANGED <<accessToken, signOutCalls>>
    /\ UNCHANGED <<received, response, sessionRes, signOutRes, refreshCalls,
                   outcome>>
    /\ UNCHANGED options
    /\ UNCHANGED serverVars

\* Faulty variant of RefreshReturn: the retry is fetch(url, { headers })
\* without ...options, so the method and the body are lost.
RefreshReturn_RetryDropsOptions(c, r) ==
    /\ pc[c] = "refreshSession"
    /\ refreshRes' = [refreshRes EXCEPT ![c] = r]
    /\ IF r.error # Null \/ ~r.session.present
         THEN /\ signOutCalls' = [signOutCalls EXCEPT ![c] = @ + 1]
              /\ pc' = [pc EXCEPT ![c] = "signOut"]
              /\ UNCHANGED <<session, accessToken, sent, wire, app>>
         ELSE /\ session' = r.session
              /\ accessToken' = [accessToken EXCEPT ![c] = r.session.access_token]
              /\ sent' = [sent EXCEPT ![c] =
                             Append(@, AuthHeaders(r.session.access_token))]
              /\ wire' = [wire EXCEPT ![c] =
                    Append(@, FetchRequest(
                        [options[c] EXCEPT !.method = "", !.body = Undefined],
                        MergedHeaders(options[c].headers,
                                      r.session.access_token)))]
              /\ app' = OnAuthStateChange(app, "TOKEN_REFRESHED", r.session)
              /\ pc' = [pc EXCEPT ![c] = "fetch2"]
              /\ UNCHANGED signOutCalls
    /\ UNCHANGED <<received, response, sessionRes, signOutRes, refreshCalls,
                   outcome>>
    /\ UNCHANGED options
    /\ UNCHANGED serverVars

\* refreshSession resolves with r = { data: { session }, error }; a new
\* session is stored by the provider.
RefreshReturn(c, r) ==
    /\ pc[c] = "refreshSession"
    /\ refreshRes' = [refreshRes EXCEPT ![c] = r]
    /\ IF r.error # Null \/ ~r.session.present
         THEN /\ signOutCalls' = [signOutCalls EXCEPT ![c] = @ + 1]
              /\ pc' = [pc EXCEPT ![c] = "signOut"]
              /\ UNCHANGED <<session, accessToken, sent, wire, app>>
         ELSE /\ session' = r.session
              /\ accessToken' = [accessToken EXCEPT ![c] = r.session.access_token]
              /\ sent' = [sent EXCEPT ![c] =
                             Append(@, AuthHeaders(r.session.access_token))]
              /\ wire' = [wire EXCEPT ![c] =
                    Append(@, FetchRequest(options[c],
                        MergedHeaders(options[c].headers,
                                      r.session.access_token)))]
              /\ app' = OnAuthStateChange(app, "TOKEN_REFRESHED", r.session)
              /\ pc' = [pc EXCEPT ![c] = "fetch2"]
              /\ UNCHANGED signOutCalls
    /\ UNCHANGED <<received, response, sessionRes, signOutRes, refreshCalls,
                   outcome>>
    /\ UNCHANGED options
    /\ UNCHANGED serverVars

\* refreshSession rejects.
RefreshThrow(c) ==
    /\ pc[c] = "refreshSession"
    /\ refreshRes' = [refreshRes EXCEPT ![c] = Rejected]
    /\ outcome' = [outcome EXCEPT ![c] = Thrown(ProviderError)]
    /\ pc' = [pc EXCEPT ![c] = "done"]
    /\ UNCHANGED <<session, accessToken, sent, received, response, sessionRes,
                   signOutRes, refreshCalls, signOutCalls>>
    /\ UNCHANGED <<options, wire, app>>
    /\ UNCHANGED serverVars

\* signOut resolves with r = { error }, which is not looked at; a signOut
\* without error has removed the stored session.
SignOutReturn(c, r) ==
    /\ pc[c] = "signOut"
    /\ signOutRes' = [signOutRes EXCEPT ![c] = r]
    /\ session' = IF r.error # Null THEN session ELSE NoSession
    /\ app' = IF r.error # Null THEN app
              ELSE OnAuthStateChange(app, "SIGNED_OUT", NoSession)
    /\ outcome' = [outcome EXCEPT ![c] = Thrown(SessionExpired)]
    /\ pc' = [pc EXCEPT ![c] = "done"]
    /\ UNCHANGED <<accessToken, sent, received, response, sessionRes,
                   refreshRes, refreshCalls, signOutCalls>>
    /\ UNCHANGED <<options, wire>>
    /\ UNCHANGED serverVars

\* signOut rejects.
SignOutThrow(c) ==
    /\ pc[c] = "signOut"
    /\ signOutRes' = [signOutRes EXCEPT ![c] = Rejected]
    /\ outcome' = [outcome EXCEPT ![c] = Thrown(ProviderError)]
    /\ pc' = [pc EXCEPT ![c] = "done"]
    /\ UNCHANGED <<session, accessToken, sent, received, response, sessionRes,
                   refreshRes, refreshCalls, signOutCalls>>
    /\ UNCHANGED <<options, wire, app>>
    /\ UNCHANGED serverVars

\* Faulty variant of Fetch2Return: a 401 on the retry starts another
\* refresh (the 401 test is a loop instead of an if).
Fetch2Return_LoopOn401(c, status) ==
    /\ pc[c] = "fetch2"
    /\ received' = [received EXCEPT ![c] = Append(@, Resp(status, NetCalls(c)))]
    /\ response' = [response EXCEPT ![c] = Resp(status, NetCalls(c))]
    /\ IF status = Unauthorized
         THEN /\ refreshCalls' = [refreshCalls EXCEPT ![c] = @ + 1]
              /\ pc' = [pc EXCEPT ![c] = "refreshSession"]
              /\ UNCHANGED outcome
         ELSE /\ outcome' = [outcome EXCEPT ![c] =
                                Returned(Resp(status, NetCalls(c)))]
              /\ pc' = [pc EXCEPT ![c] = "done"]
              /\ UNCHANGED refreshCalls
    /\ UNCHANGED <<session, accessToken, sent, sessionRes, refreshRes,
                   signOutRes, signOutCalls>>
    /\ UNCHANGED <<options, wire, app>>
    /\ UNCHANGED serverVars

\* Faulty variant of Fetch2Return: after a 401 on the retry the call waits
\* on a promise that nothing settles.
Fetch2Return_NeverSettles(c, status) ==
    /\ pc[c] = "fetch2"
    /\ received' = [received EXCEPT ![c] = Append(@, Resp(status, NetCalls(c)))]
    /\ response' = [response EXCEPT ![c] = Resp(status, NetCalls(c))]
    /\ IF status = Unauthorized
         THEN /\ pc' = [pc EXCEPT ![c] = "stuck"]
              /\ UNCHANGED outcome
         ELSE /\ outcome' = [outcome EXCEPT ![c] =
                                Returned(Resp(status, NetCalls(c)))]
              /\ pc' = [pc EXCEPT ![c] = "done"]
    /\ UNCHANGED <<session, accessToken, sent, sessionRes, refreshRes,
                   signOutRes, refreshCalls, signOutCalls>>
    /\ UNCHANGED <<options, wire, app>>
    /\ UNCHANGED serverVars

\* Faulty variant of Fetch2Return: a 401 on the retry forces the logout,
\* as a failed refresh does.
Fetch2Return_SignOutOn401(c, status) ==
    /\ pc[c] = "fetch2"
    /\ received' = [received EXCEPT ![c] = Append(@, Resp(status, NetCalls(c)))]
    /\ response' = [response EXCEPT ![c] = Resp(status, NetCalls(c))]
    /\ IF status = Unauthorized
         THEN /\ signOutCalls' = [signOutCalls EXCEPT ![c] = @ + 1]
              /\ pc' = [pc EXCEPT ![c] = "signOut"]
              /\ UNCHANGED outcome
         ELSE /\ outcome' = [outcome EXCEPT ![c] =
                                Returned(Resp(status, NetCalls(c)))]
              /\ pc' = [pc EXCEPT ![c] = "done"]
              /\ UNCHANGED signOutCalls
    /\ UNCHANGED <<session, accessToken, sent, sessionRes, refreshRes,
                   signOutRes, refreshCalls>>
    /\ UNCHANGED <<options, wire, app>>
    /\ UNCHANGED serverVars

\* The retried fetch() resolves; whatever it is, it is returned.
Fetch2Return(c, status) ==
    /\ pc[c] = "fetch2"
    /\ received' = [received EXCEPT ![c] = Append(@, Resp(status, NetCalls(c)))]
    /\ response' = [response EXCEPT ![c] = Resp(status, NetCalls(c))]
    /\ outcome' = [outcome EXCEPT ![c] = Returned(Resp(status, NetCalls(c)))]
    /\ pc' = [pc EXCEPT ![c] = "done"]
    /\ UNCHANGED <<session, accessToken, sent, sessionRes, refreshRes,
                   signOutRes, refreshCalls, signOutCalls>>
    /\ UNCHANGED <<options, wire, app>>
    /\ UNCHANGED serverVars

\* The retried fetch() rejects.
Fetch2Fail(c) ==
    /\ pc[c] = "fetch2"
    /\ received' = [received EXCEPT ![c] = Append(@, FetchRejected(NetCalls(c)))]
    /\ outcome' = [outcome EXCEPT ![c] = Thrown(NetworkError)]
    /\ pc' = [pc EXCEPT ![c] = "done"]
    /\ UNCHANGED <<session, accessToken, sent, response, sessionRes,
                   refreshRes, signOutRes, refreshCalls, signOutCalls>>
    /\ UNCHANGED <<options, wire, app>>
    /\ UNCHANGED serverVars

Next ==
    \E c \in Calls :
        \/ Call(c)
        \/ \E r \in GetSessionResults : GetSessionReturn(c, r)
        \/ GetSessionThrow(c)
        \/ \E status \in Statuses : Fetch1Return(c, status)
        \/ Fetch1Fail(c)
        \/ \E r \in RefreshResults : RefreshReturn(c, r)
        \/ RefreshThrow(c)
        \/ \E r \in SignOutResults : SignOutReturn(c, r)
        \/ SignOutThrow(c)
        \/ \E status \in Statuses : Fetch2Return(c, status)
        \/ Fetch2Fail(c)

\* The await a call is suspended on settles, one way or another.
Resume(c) ==
    \/ \E r \in GetSessionResults : GetSessionReturn(c, r)
    \/ GetSessionThrow(c)
    \/ \E status \in Statuses : Fetch1Return(c, status)
    \/ Fetch1Fail(c)
    \/ \E r \in RefreshResults : RefreshReturn(c, r)
    \/ RefreshThrow(c)
    \/ \E r \in SignOutResults : SignOutReturn(c, r)
    \/ SignOutThrow(c)
    \/ \E status \in Statuses : Fetch2Return(c, status)
    \/ Fetch2Fail(c)

Spec == Init /\ [][Next]_vars

(***************************************************************************)
(* One caller using every entry point of the module, with the headers and  *)
(* bodies a caller can pass.                                               *)
(***************************************************************************)
Caller == CHOOSE c \in Calls : TRUE

Paths == {"/posts", "/users/u1"}

\* Headers objects a caller passes to fetchWithAuth.
HeaderChoices ==
    { <<>>,
      << <<"Content-Type", "application/json">> >>,
      << <<"Content-Type", "text/plain">> >>,
      << <<"Authorization", "Bearer evil">> >>,
      << <<"authorization", "Bearer evil">> >>,
      << <<"X-Trace", "1">>, <<"content-type", "text/plain">> >> }

\* Body parameters a caller passes to postWithAuth and putWithAuth.
BodyParams ==
    { Undefined,
      JsObject(<<>>),
      JsObject(<< <<"content", "hello">> >>),
      JsNumber("0"),
      JsNumber("7"),
      JsBoolean("false"),
      JsString("") }

RequestNext ==
    \/ \E path \in Paths, h \in HeaderChoices : FetchWithAuth(Caller, path, h)
    \/ \E path \in Paths, b \in BodyParams : PostWithAuth(Caller, path, b)
    \/ \E path \in Paths : GetWithAuth(Caller, path)
    \/ \E path \in Paths : DeleteWithAuth(Caller, path)
    \/ \E path \in Paths, b \in BodyParams : PutWithAuth(Caller, path, b)
    \/ Resume(Caller)

RequestSpec == Init /\ [][RequestNext]_vars

(***************************************************************************)
(* The backend: verifyAuth and what each route that calls it answers.      *)
(* An Authorization header is the sequence of the words that               *)
(* authHeader.split(' ') yields; <<>> is a missing header.                 *)
(***************************************************************************)
\* The routes that call verifyAuth.
AuthRoutes ==
    { "PUT /users/:id", "POST /posts", "DELETE /posts/:id",
      "POST /posts/:id/like", "GET /posts/:id/like/check",
      "POST /posts/:id/comments", "POST /follows/:id",
      "GET /follows/:id/check" }

\* The two routes that answer { liked: false } / { following: false } when
\* verifyAuth reports an error.
CheckRoutes == {"GET /posts/:id/like/check", "GET /follows/:id/check"}

\* Tokens supabaseAuth.auth.getUser accepts; every other token is
\* malformed or expired.
ValidTokens == {"tokA"}

\* Authorization headers a request arrives with.
AuthHeaderChoices ==
    { <<>>,
      <<"Bearer">>,
      <<"Bearer", "">>,
      <<"Bearer", "tokA">>,
      <<"Bearer", "tokExpired">>,
      <<"tokA">>,
      <<"Bearer", "evil,", "Bearer", "tokA">> }

\* authHeader?.split(' ')[1], "" when there is no second word.
TokenOf(authHeader) == IF Len(authHeader) >= 2 THEN authHeader[2] ELSE ""

\* verifyAuth stops before getUser: no header, or no token in it.
AuthErrorBeforeGetUser(authHeader) ==
    IF authHeader = <<>> \/ authHeader = <<"">>
      THEN "No Authorization header"
    ELSE IF TokenOf(authHeader) = "" THEN "No token provided"
    ELSE Null

\* What getUser(token) settles with: the user of a valid token, an error
\* for any other token, no user, or an exception (auth service failure).
GetUserResults(token) ==
    (IF token \in ValidTokens THEN {"user"} ELSE {"error"})
        \cup {"nouser", "throw"}

\* The { user, error } verifyAuth returns for a getUser result.
VerifyAuthResult(r) ==
    CASE r = "user" -> [user |-> UserId, error |-> Null]
      [] r = "error" -> [user |-> Null, error |-> "Invalid or expired token"]
      [] r = "nouser" -> [user |-> Null, error |-> "Unauthorized"]
      [] OTHER -> [user |-> Null, error |-> "Token verification exception"]

\* Statuses a route answers with once verifyAuth has reported no error.
HandlerStatuses == {200, 400, 403, 404, 500}

\* if (authResult.error) ... of a route: the response, or NoServerResponse
\* when the handler goes on.
AuthFailureResponse(route, auth) ==
    IF auth.error = Null THEN NoServerResponse
    ELSE IF route = "GET /posts/:id/like/check"
      THEN [status |-> 200, body |-> "liked:false"]
    ELSE IF route = "GET /follows/:id/check"
      THEN [status |-> 200, body |-> "following:false"]
    ELSE [status |-> Unauthorized, body |-> "error"]

\* The route's verifyAuth has returned auth.
AfterVerify(auth) ==
    /\ srvAuth' = auth
    /\ IF auth.error = Null
         THEN /\ srvPc' = "handling"
              /\ UNCHANGED srvResponse
         ELSE /\ srvPc' = "responded"
              /\ srvResponse' = AuthFailureResponse(srvRequest.route, auth)

\* A request arrives at a route; verifyAuth runs up to its await of getUser
\* or returns at once.
Receive(route, authHeader) ==
    /\ srvPc \in {"idle", "responded"}
    /\ srvRequest' = [route |-> route, authHeader |-> authHeader]
    /\ IF AuthErrorBeforeGetUser(authHeader) # Null
         THEN /\ srvAuth' =
                    [user |-> Null, error |-> AuthErrorBeforeGetUser(authHeader)]
              /\ srvPc' = "responded"
              /\ srvResponse' =
                    AuthFailureResponse(route,
                        [user |-> Null,
                         error |-> AuthErrorBeforeGetUser(authHeader)])
         ELSE /\ srvPc' = "getUser"
              /\ srvAuth' = NoAuthResult
              /\ srvResponse' = NoServerResponse
    /\ UNCHANGED <<session, pc, accessToken, sent, received, response,
                   sessionRes, refreshRes, signOutRes, refreshCalls,
                   signOutCalls, outcome, options, wire, app>>
    /\ UNCHANGED storeVars

\* getUser settles and verifyAuth returns to the route.
GetUserReturn(r) ==
    /\ srvPc = "getUser"
    /\ r \in GetUserResults(TokenOf(srvRequest.authHeader))
    /\ AfterVerify(VerifyAuthResult(r))
    /\ UNCHANGED srvRequest
    /\ UNCHANGED <<session, pc, accessToken, sent, received, response,
                   sessionRes, refreshRes, signOutRes, refreshCalls,
                   signOutCalls, outcome, options, wire, app>>
    /\ UNCHANGED storeVars

\* The handler of an authenticated request answers.
Handle(status) ==
    /\ srvPc = "handling"
    /\ srvResponse' = [status |-> status, body |-> "handler"]
    /\ srvPc' = "responded"
    /\ UNCHANGED <<srvRequest, srvAuth>>
    /\ UNCHANGED <<session, pc, accessToken, sent, received, response,
                   sessionRes, refreshRes, signOutRes, refreshCalls,
                   signOutCalls, outcome, options, wire, app>>
    /\ UNCHANGED storeVars

ServerNext ==
    \/ \E route \in AuthRoutes, h \in AuthHeaderChoices : Receive(route, h)
    \/ \E r \in {"user", "error", "nouser", "throw"} : GetUserReturn(r)
    \/ \E status \in HandlerStatuses : Handle(status)

ServerSpec == Init /\ [][ServerNext]_vars

(***************************************************************************)
(* The routes that read and write the store.  A handler is suspended at    *)
(* every awaited store operation: an action lets the awaited operation     *)
(* take effect on the store and runs the handler up to its next await or   *)
(* to its response.  A route starts at the point where its verifyAuth has  *)
(* returned.  The store operations are taken to succeed.                   *)
(***************************************************************************)
\* What verifyAuth returns to a route: one of these users verified, or an
\* error.
AuthResults(users) ==
    {[user |-> u, error |-> Null] : u \in users}
        \cup {VerifyAuthResult("nouser")}

\* The :id of a post route and of a user route: a stored one, and one that
\* is not stored.
PostParams == {"post-1", "post-9"}

UserParams == {UserId, "user-2", "user-9"}

\* Contents a create-post request arrives with.
PostContents ==
    { NoText, NotAString, Text(0, 0, 0), Text(2, 0, 0), Text(0, 1, 0),
      Text(1, 1, 1), Text(0, MaxPostLength, 0), Text(1, MaxPostLength, 0),
      Text(0, MaxPostLength + 1, 0) }

\* Contents an add-comment request arrives with.
CommentContents == {NoText, Text(1, 0, 0), Text(1, 1, 0)}

\* The status the content checks of a route answer with, 0 when the
\* content passes: a truthy value without trim() raises a TypeError, which
\* the route's catch turns into 500.
ContentStatus(content, maxLength) ==
    IF Falsy(content) THEN 400
    ELSE IF content.kind = "other" THEN 500
    ELSE IF Length(Trim(content)) = 0 THEN 400
    ELSE IF maxLength > 0 /\ Length(content) > maxLength THEN 400
    ELSE 0

CanStart(h) == req[h].pc \in {"idle", "responded"}

At(h, route, label) == req[h].route = route /\ req[h].pc = label

\* crypto.randomUUID(): the next unused identifier.
NextUuid == Uuids[nextId + 1]

\* ---- POST /posts ----
\* Faulty variant of StartCreatePost: the length of the content is not
\* checked.
StartCreatePost_NoLengthCheck(h, auth, content) ==
    /\ CanStart(h)
    /\ LET r == Request("POST /posts", auth, "", content)
       IN  req' = [req EXCEPT ![h] =
               IF auth.error # Null
                 THEN Responded(r, AuthFailureResponse(r.route, auth).status,
                                "error")
               ELSE IF ContentStatus(content, 0) # 0
                 THEN Responded(r, ContentStatus(content, 0), "error")
               ELSE [r EXCEPT !.pc = "getUser"]]
    /\ UNCHANGED <<kv, nextId>>
    /\ UNCHANGED <<clientVars, authVars>>

\* create-post up to its first store operation: the auth check and the
\* content checks.
StartCreatePost(h, auth, content) ==
    /\ CanStart(h)
    /\ LET r == Request("POST /posts", auth, "", content)
       IN  req' = [req EXCEPT ![h] =
               IF auth.error # Null
                 THEN Responded(r, AuthFailureResponse(r.route, auth).status,
                                "error")
               ELSE IF ContentStatus(content, MaxPostLength) # 0
                 THEN Responded(r, ContentStatus(content, MaxPostLength),
                                "error")
               ELSE [r EXCEPT !.pc = "getUser"]]
    /\ UNCHANGED <<kv, nextId>>
    /\ UNCHANGED <<clientVars, authVars>>

\* kv.get(`user:${id}`) of create-post: a missing profile is created next,
\* otherwise the post identifier is drawn and the post is written next.
CreateGetUser(h) ==
    /\ At(h, "POST /posts", "getUser")
    /\ IF KvGet(kv, UserKey(req[h].auth.user)) = NullValue
         THEN /\ req' = [req EXCEPT ![h].pc = "setUser"]
              /\ UNCHANGED nextId
         ELSE /\ nextId < MaxCreated
              /\ req' = [req EXCEPT ![h].pc = "setPost", ![h].uuid = NextUuid]
              /\ nextId' = nextId + 1
    /\ UNCHANGED kv
    /\ UNCHANGED <<clientVars, authVars>>

\* kv.set(`user:${id}`, user) of create-post.
CreateSetUser(h) ==
    /\ At(h, "POST /posts", "setUser")
    /\ nextId < MaxCreated
    /\ kv' = KvSet(kv, UserKey(req[h].auth.user), UserValue(req[h].auth.user))
    /\ req' = [req EXCEPT ![h].pc = "setPost", ![h].uuid = NextUuid]
    /\ nextId' = nextId + 1
    /\ UNCHANGED <<clientVars, authVars>>

\* kv.set(`post:${postId}`, post) of create-post, and the response.
CreateSetPost(h) ==
    /\ At(h, "POST /posts", "setPost")
    /\ kv' = KvSet(kv, PostKey(req[h].uuid),
                   PostValue(req[h].uuid, req[h].auth.user,
                             Trim(req[h].content)))
    /\ req' = [req EXCEPT ![h] = Responded(req[h], 200, "post")]
    /\ UNCHANGED nextId
    /\ UNCHANGED <<clientVars, authVars>>

\* ---- DELETE /posts/:id ----
StartDeletePost(h, auth, param) ==
    /\ CanStart(h)
    /\ LET r == Request("DELETE /posts/:id", auth, param, NoText)
       IN  req' = [req EXCEPT ![h] =
               IF auth.error # Null
                 THEN Responded(r, AuthFailureResponse(r.route, auth).status,
                                "error")
               ELSE [r EXCEPT !.pc = "getPost"]]
    /\ UNCHANGED <<kv, nextId>>
    /\ UNCHANGED <<clientVars, authVars>>

\* Faulty variant of DeleteGetPost: the owner of the post is not compared
\* with the caller.
DeleteGetPost_NoOwnerCheck(h) ==
    /\ At(h, "DELETE /posts/:id", "getPost")
    /\ LET post == KvGet(kv, PostKey(req[h].param))
       IN  req' = [req EXCEPT ![h] =
               IF post = NullValue THEN Responded(req[h], 404, "error")
               ELSE [req[h] EXCEPT !.pc = "delPost", !.post = post]]
    /\ UNCHANGED <<kv, nextId>>
    /\ UNCHANGED <<clientVars, authVars>>

\* kv.get(`post:${postId}`) of delete-post, the 404 and the owner check.
DeleteGetPost(h) ==
    /\ At(h, "DELETE /posts/:id", "getPost")
    /\ LET post == KvGet(kv, PostKey(req[h].param))
       IN  req' = [req EXCEPT ![h] =
               IF post = NullValue THEN Responded(req[h], 404, "error")
               ELSE IF post.userId # req[h].auth.user
                 THEN Responded(req[h], 403, "error")
               ELSE [req[h] EXCEPT !.pc = "delPost", !.post = post]]
    /\ UNCHANGED <<kv, nextId>>
    /\ UNCHANGED <<clientVars, authVars>>

\* kv.del(`post:${postId}`)
DeleteDelPost(h) ==
    /\ At(h, "DELETE /posts/:id", "delPost")
    /\ kv' = KvDel(kv, PostKey(req[h].param))
    /\ req' = [req EXCEPT ![h].pc = "getLikes"]
    /\ UNCHANGED nextId
    /\ UNCHANGED <<clientVars, authVars>>

\* kv.getByPrefix(`like:${postId}:`)
DeleteGetLikes(h) ==
    /\ At(h, "DELETE /posts/:id", "getLikes")
    /\ req' = [req EXCEPT ![h].pc = "getComments",
                          ![h].likes =
                              KvGetByPrefix(kv, <<"like", req[h].param, "">>)]
    /\ UNCHANGED <<kv, nextId>>
    /\ UNCHANGED <<clientVars, authVars>>

\* keysToDelete of delete-post.
KeysToDelete(postId, likes, comments) ==
    {LikeKey(postId, l.userId) : l \in likes}
        \cup {CommentKey(postId, c.id) : c \in comments}

\* kv.getByPrefix(`comment:${postId}:`); with nothing to delete the
\* route answers at once.
DeleteGetComments(h) ==
    /\ At(h, "DELETE /posts/:id", "getComments")
    /\ LET comments == KvGetByPrefix(kv, <<"comment", req[h].param, "">>)
       IN  req' = [req EXCEPT ![h] =
               IF KeysToDelete(req[h].param, req[h].likes, comments) = {}
                 THEN Responded(req[h], 200, "deleted")
                 ELSE [req[h] EXCEPT !.pc = "mdel", !.comments = comments]]
    /\ UNCHANGED <<kv, nextId>>
    /\ UNCHANGED <<clientVars, authVars>>

\* kv.mdel(keysToDelete), and the response.
DeleteMdel(h) ==
    /\ At(h, "DELETE /posts/:id", "mdel")
    /\ kv' = KvMdel(kv, KeysToDelete(req[h].param, req[h].likes,
                                     req[h].comments))
    /\ req' = [req EXCEPT ![h] = Responded(req[h], 200, "deleted")]
    /\ UNCHANGED nextId
    /\ UNCHANGED <<clientVars, authVars>>

\* ---- POST /posts/:id/like ----
StartToggleLike(h, auth, param) ==
    /\ CanStart(h)
    /\ LET r == Request("POST /posts/:id/like", auth, param, NoText)
       IN  req' = [req EXCEPT ![h] =
               IF auth.error # Null
                 THEN Responded(r, AuthFailureResponse(r.route, auth).status,
                                "error")
               ELSE [r EXCEPT !.pc = "getPost"]]
    /\ UNCHANGED <<kv, nextId>>
    /\ UNCHANGED <<clientVars, authVars>>

\* kv.get(`post:${postId}`) of toggle-like.
LikeGetPost(h) ==
    /\ At(h, "POST /posts/:id/like", "getPost")
    /\ req' = [req EXCEPT ![h] =
           IF KvGet(kv, PostKey(req[h].param)) = NullValue
             THEN Responded(req[h], 404, "error")
             ELSE [req[h] EXCEPT !.pc = "getLike"]]
    /\ UNCHANGED <<kv, nextId>>
    /\ UNCHANGED <<clientVars, authVars>>

\* kv.get(likeKey)
LikeGetLike(h) ==
    /\ At(h, "POST /posts/:id/like", "getLike")
    /\ req' = [req EXCEPT ![h].pc = "writeLike",
                          ![h].existing =
                              KvGet(kv, LikeKey(req[h].param,
                                                req[h].auth.user)) # NullValue]
    /\ UNCHANGED <<kv, nextId>>
    /\ UNCHANGED <<clientVars, authVars>>

\* Faulty variant of LikeWrite: the like is written whether or not one
\* was found.
LikeWrite_AlwaysSets(h) ==
    /\ At(h, "POST /posts/:id/like", "writeLike")
    /\ kv' = KvSet(kv, LikeKey(req[h].param, req[h].auth.user),
                   LikeValue(req[h].param, req[h].auth.user))
    /\ req' = [req EXCEPT ![h] = Responded(req[h], 200, "liked:true")]
    /\ UNCHANGED nextId
    /\ UNCHANGED <<clientVars, authVars>>

\* kv.del(likeKey) of an existing like, kv.set(likeKey, ...) otherwise,
\* and the response.
LikeWrite(h) ==
    /\ At(h, "POST /posts/:id/like", "writeLike")
    /\ IF req[h].existing
         THEN /\ kv' = KvDel(kv, LikeKey(req[h].param, req[h].auth.user))
              /\ req' = [req EXCEPT ![h] =
                            Responded(req[h], 200, "liked:false")]
         ELSE /\ kv' = KvSet(kv, LikeKey(req[h].param, req[h].auth.user),
                             LikeValue(req[h].param, req[h].auth.user))
              /\ req' = [req EXCEPT ![h] =
                            Responded(req[h], 200, "liked:true")]
    /\ UNCHANGED nextId
    /\ UNCHANGED <<clientVars, authVars>>

\* ---- POST /posts/:id/comments ----
StartAddComment(h, auth, param, content) ==
    /\ CanStart(h)
    /\ LET r == Request("POST /posts/:id/comments", auth, param, content)
       IN  req' = [req EXCEPT ![h] =
               IF auth.error # Null
                 THEN Responded(r, AuthFailureResponse(r.route, auth).status,
                                "error")
               ELSE IF ContentStatus(content, 0) # 0
                 THEN Responded(r, ContentStatus(content, 0), "error")
               ELSE [r EXCEPT !.pc = "getPost"]]
    /\ UNCHANGED <<kv, nextId>>
    /\ UNCHANGED <<clientVars, authVars>>

\* kv.get(`post:${postId}`) of add-comment.
CommentGetPost(h) ==
    /\ At(h, "POST /posts/:id/comments", "getPost")
    /\ req' = [req EXCEPT ![h] =
           IF KvGet(kv, PostKey(req[h].param)) = NullValue
             THEN Responded(req[h], 404, "error")
             ELSE [req[h] EXCEPT !.pc = "getUser"]]
    /\ UNCHANGED <<kv, nextId>>
    /\ UNCHANGED <<clientVars, authVars>>

\* kv.get(`user:${id}`) of add-comment.
CommentGetUser(h) ==
    /\ At(h, "POST /posts/:id/comments", "getUser")
    /\ IF KvGet(kv, UserKey(req[h].auth.user)) = NullValue
         THEN /\ req' = [req EXCEPT ![h].pc = "setUser"]
              /\ UNCHANGED nextId
         ELSE /\ nextId < MaxCreated
              /\ req' = [req EXCEPT ![h].pc = "setComment",
                                    ![h].uuid = NextUuid]
              /\ nextId' = nextId + 1
    /\ UNCHANGED kv
    /\ UNCHANGED <<clientVars, authVars>>

\* kv.set(`user:${id}`, user) of add-comment.
CommentSetUser(h) ==
    /\ At(h, "POST /posts/:id/comments", "setUser")
    /\ nextId < MaxCreated
    /\ kv' = KvSet(kv, UserKey(req[h].auth.user), UserValue(req[h].auth.user))
    /\ req' = [req EXCEPT ![h].pc = "setComment", ![h].uuid = NextUuid]
    /\ nextId' = nextId + 1
    /\ UNCHANGED <<clientVars, authVars>>

\* kv.set(`comment:${postId}:${commentId}`, comment), and the response.
CommentSetComment(h) ==
    /\ At(h, "POST /posts/:id/comments", "setComment")
    /\ kv' = KvSet(kv, CommentKey(req[h].param, req[h].uuid),
                   CommentValue(req[h].uuid, req[h].param, req[h].auth.user,
                                Trim(req[h].content)))
    /\ req' = [req EXCEPT ![h] = Responded(req[h], 200, "comment")]
    /\ UNCHANGED nextId
    /\ UNCHANGED <<clientVars, authVars>>

\* ---- POST /follows/:id ----
\* Faulty variant of StartToggleFollow: the target is not compared with
\* the caller.
StartToggleFollow_NoSelfCheck(h, auth, param) ==
    /\ CanStart(h)
    /\ LET r == Request("POST /follows/:id", auth, param, NoText)
       IN  req' = [req EXCEPT ![h] =
               IF auth.error # Null
                 THEN Responded(r, AuthFailureResponse(r.route, auth).status,
                                "error")
               ELSE [r EXCEPT !.pc = "getUser"]]
    /\ UNCHANGED <<kv, nextId>>
    /\ UNCHANGED <<clientVars, authVars>>

\* toggle-follow up to its first store operation.
StartToggleFollow(h, auth, param) ==
    /\ CanStart(h)
    /\ LET r == Request("POST /follows/:id", auth, param, NoText)
       IN  req' = [req EXCEPT ![h] =
               IF auth.error # Null
                 THEN Responded(r, AuthFailureResponse(r.route, auth).status,
                                "error")
               ELSE IF param = auth.user THEN Responded(r, 400, "error")
               ELSE [r EXCEPT !.pc = "getUser"]]
    /\ UNCHANGED <<kv, nextId>>
    /\ UNCHANGED <<clientVars, authVars>>

\* kv.get(`user:${targetUserId}`)
FollowGetTarget(h) ==
    /\ At(h, "POST /follows/:id", "getUser")
    /\ req' = [req EXCEPT ![h] =
           IF KvGet(kv, UserKey(req[h].param)) = NullValue
             THEN Responded(req[h], 404, "error")
             ELSE [req[h] EXCEPT !.pc = "getFollow"]]
    /\ UNCHANGED <<kv, nextId>>
    /\ UNCHANGED <<clientVars, authVars>>

\* kv.get(followKey)
FollowGetFollow(h) ==
    /\ At(h, "POST /follows/:id", "getFollow")
    /\ req' = [req EXCEPT ![h].pc = "writeFollow",
                          ![h].existing =
                              KvGet(kv, FollowKey(req[h].auth.user,
                                                  req[h].param)) # NullValue]
    /\ UNCHANGED <<kv, nextId>>
    /\ UNCHANGED <<clientVars, authVars>>

\* kv.del(followKey) of an existing follow, kv.set(followKey, ...)
\* otherwise, and the response.
FollowWrite(h) ==
    /\ At(h, "POST /follows/:id", "writeFollow")
    /\ IF req[h].existing
         THEN /\ kv' = KvDel(kv, FollowKey(req[h].auth.user, req[h].param))
              /\ req' = [req EXCEPT ![h] =
                            Responded(req[h], 200, "following:false")]
         ELSE /\ kv' = KvSet(kv, FollowKey(req[h].auth.user, req[h].param),
                             FollowValue(req[h].auth.user, req[h].param))
              /\ req' = [req EXCEPT ![h] =
                            Responded(req[h], 200, "following:true")]
    /\ UNCHANGED nextId
    /\ UNCHANGED <<clientVars, authVars>>

\* ---- GET /users/:id ----
StartGetUser(h, param) ==
    /\ CanStart(h)
    /\ req' = [req EXCEPT ![h] =
           [Request("GET /users/:id", NoAuthResult, param, NoText)
               EXCEPT !.pc = "getUser"]]
    /\ UNCHANGED <<kv, nextId>>
    /\ UNCHANGED <<clientVars, authVars>>

\* kv.get(`user:${userId}`)
ProfileGetUser(h) ==
    /\ At(h, "GET /users/:id", "getUser")
    /\ req' = [req EXCEPT ![h] =
           IF KvGet(kv, UserKey(req[h].param)) = NullValue
             THEN Responded(req[h], 404, "error")
             ELSE [req[h] EXCEPT !.pc = "getFollowers"]]
    /\ UNCHANGED <<kv, nextId>>
    /\ UNCHANGED <<clientVars, authVars>>

\* followers = kv.getByPrefix(`follow:*:${userId}`)
ProfileGetFollowers(h) ==
    /\ At(h, "GET /users/:id", "getFollowers")
    /\ req' = [req EXCEPT ![h].pc = "getFollowing",
                          ![h].followers =
                              KvGetByPrefix(kv, <<"follow", "*", req[h].param>>)]
    /\ UNCHANGED <<kv, nextId>>
    /\ UNCHANGED <<clientVars, authVars>>

\* following = kv.getByPrefix(`follow:${userId}:*`), and the response with
\* stats: { followers: followers.length, following: following.length }.
ProfileGetFollowing(h) ==
    /\ At(h, "GET /users/:id", "getFollowing")
    /\ LET following == KvGetByPrefix(kv, <<"follow", req[h].param, "*">>)
       IN  req' = [req EXCEPT ![h] =
               [Responded(req[h], 200, "user") EXCEPT
                   !.response.followers = Cardinality(req[h].followers),
                   !.response.following = Cardinality(following)]]
    /\ UNCHANGED <<kv, nextId>>
    /\ UNCHANGED <<clientVars, authVars>>

\* ---- POST /seed-users ----
StartSeedUsers(h) ==
    /\ CanStart(h)
    /\ req' = [req EXCEPT ![h] =
           [Request("POST /seed-users", NoAuthResult, "", NoText)
               EXCEPT !.pc = "getSeedDone"]]
    /\ UNCHANGED <<kv, nextId>>
    /\ UNCHANGED <<clientVars, authVars>>

\* existingUsers = kv.get('seed:users:done')
SeedGetDone(h) ==
    /\ At(h, "POST /seed-users", "getSeedDone")
    /\ req' = [req EXCEPT ![h] =
           IF KvGet(kv, SeedDoneKey) # NullValue
             THEN Responded(req[h], 200, "already seeded")
             ELSE [req[h] EXCEPT !.pc = "setUser", !.i = 1]]
    /\ UNCHANGED <<kv, nextId>>
    /\ UNCHANGED <<clientVars, authVars>>

\* kv.set(`user:${user.id}`, user) of the i-th seed user; after the last
\* one the identifier of the first sample post is drawn.
SeedSetUser(h) ==
    /\ At(h, "POST /seed-users", "setUser")
    /\ kv' = KvSet(kv, UserKey(SeedUserIds[req[h].i]),
                   UserValue(SeedUserIds[req[h].i]))
    /\ IF req[h].i < Len(SeedUserIds)
         THEN /\ req' = [req EXCEPT ![h].i = @ + 1]
              /\ UNCHANGED nextId
         ELSE /\ nextId < Len(Uuids)
              /\ req' = [req EXCEPT ![h].pc = "setPost", ![h].i = 1,
                                    ![h].uuid = NextUuid]
              /\ nextId' = nextId + 1
    /\ UNCHANGED <<clientVars, authVars>>

\* kv.set(`post:${postId}`, ...) of the i-th sample post; the identifier
\* of the next one is drawn, or the marker is written next.
SeedSetPost(h) ==
    /\ At(h, "POST /seed-users", "setPost")
    /\ kv' = KvSet(kv, PostKey(req[h].uuid),
                   PostValue(req[h].uuid, SamplePosts[req[h].i],
                             Text(0, 1, 0)))
    /\ IF req[h].i < Len(SamplePosts)
         THEN /\ nextId < Len(Uuids)
              /\ req' = [req EXCEPT ![h].i = @ + 1, ![h].uuid = NextUuid]
              /\ nextId' = nextId + 1
         ELSE /\ req' = [req EXCEPT ![h].pc = "setSeedDone", ![h].i = 0,
                                    ![h].uuid = ""]
              /\ UNCHANGED nextId
    /\ UNCHANGED <<clientVars, authVars>>

\* kv.set('seed:users:done', ...), and the response.
SeedSetDone(h) ==
    /\ At(h, "POST /seed-users", "setSeedDone")
    /\ kv' = KvSet(kv, SeedDoneKey, SeedDoneValue)
    /\ req' = [req EXCEPT ![h] = Responded(req[h], 200, "seeded")]
    /\ UNCHANGED nextId
    /\ UNCHANGED <<clientVars, authVars>>

\* ---- the specifications of the store routes ----
\* The backend is looked at on its own: no client call is in flight and
\* the provider holds no session.
StoreInit == Init /\ session = NoSession

\* A step of handler h in one of the post routes: delete-post, toggle-like
\* and add-comment.
PostStep(h) ==
    \/ \E auth \in AuthResults({UserId, "user-2"}), param \in PostParams :
           StartDeletePost(h, auth, param)
    \/ DeleteGetPost(h)
    \/ DeleteDelPost(h)
    \/ DeleteGetLikes(h)
    \/ DeleteGetComments(h)
    \/ DeleteMdel(h)
    \/ \E auth \in AuthResults({UserId, "user-2"}), param \in PostParams :
           StartToggleLike(h, auth, param)
    \/ LikeGetPost(h)
    \/ LikeGetLike(h)
    \/ LikeWrite(h)
    \/ \E auth \in AuthResults({"user-2", "user-3"}), param \in PostParams,
          content \in CommentContents :
           StartAddComment(h, auth, param, content)
    \/ CommentGetPost(h)
    \/ CommentGetUser(h)
    \/ CommentSetUser(h)
    \/ CommentSetComment(h)

PostNext == \E h \in Handlers : PostStep(h)

\* Requests to the post routes, served concurrently.
PostSpec == StoreInit /\ [][PostNext]_vars

FirstHandler == CHOOSE h \in Handlers : TRUE

SeqPostNext == PostStep(FirstHandler)

\* Requests to the post routes, served one after the other.
SeqPostSpec == StoreInit /\ [][SeqPostNext]_vars

CreateStep(h) ==
    \/ \E auth \in AuthResults({UserId, "user-3"}), content \in PostContents :
           StartCreatePost(h, auth, content)
    \/ CreateGetUser(h)
    \/ CreateSetUser(h)
    \/ CreateSetPost(h)

SeqCreateNext == CreateStep(FirstHandler)

\* Requests to create-post, served one after the other.
SeqCreateSpec == StoreInit /\ [][SeqCreateNext]_vars

FollowStep(h) ==
    \/ \E auth \in AuthResults({UserId, "user-2"}), param \in UserParams :
           StartToggleFollow(h, auth, param)
    \/ FollowGetTarget(h)
    \/ FollowGetFollow(h)
    \/ FollowWrite(h)
    \/ \E param \in UserParams : StartGetUser(h, param)
    \/ ProfileGetUser(h)
    \/ ProfileGetFollowers(h)
    \/ ProfileGetFollowing(h)

FollowNext == \E h \in Handlers : FollowStep(h)

\* Requests to toggle-follow and to the profile route, served concurrently.
FollowSpec == StoreInit /\ [][FollowNext]_vars

SeqFollowNext == FollowStep(FirstHandler)

\* Requests to toggle-follow and to the profile route, served one after
\* the other.
SeqFollowSpec == StoreInit /\ [][SeqFollowNext]_vars

SeedStep(h) ==
    \/ StartSeedUsers(h)
    \/ SeedGetDone(h)
    \/ SeedSetUser(h)
    \/ SeedSetPost(h)
    \/ SeedSetDone(h)

SeedNext == \E h \in Handlers : SeedStep(h)

\* Requests to seed-users, served concurrently.
SeedSpec == StoreInit /\ [][SeedNext]_vars

\* Every provider call and every fetch() a call waits on eventually settles.
LiveSpec == Spec /\ \A c \in Calls : WF_vars(Resume(c))

(***************************************************************************)
(* Observations the claims are stated over.                                *)
(***************************************************************************)
Done(c) == pc[c] = "done"

\* The i-th fetch() of call c resolved with a response of this status.
Got(c, i, status) ==
    /\ Len(received[c]) >= i
    /\ received[c][i].ok
    /\ received[c][i].status = status

\* The i-th fetch() of call c resolved with some response.
GotResponse(c, i) == Len(received[c]) >= i /\ received[c][i].ok

\* The i-th fetch() of call c rejected.
FetchFailed(c, i) == Len(received[c]) >= i /\ ~received[c][i].ok

\* refreshSession resolved with a session and no error.
RefreshSucceeded(c) ==
    /\ refreshRes[c].state = "resolved"
    /\ refreshRes[c].error = Null
    /\ refreshRes[c].session.present

\* refreshSession resolved with an error result or with no session.
RefreshFailed(c) ==
    /\ refreshRes[c].state = "resolved"
    /\ (refreshRes[c].error # Null \/ ~refreshRes[c].session.present)

\* A session that carries a non-empty access token.
HasToken(s) == s.present /\ s.access_token \in Tokens

\* getSession resolved without error and with a usable access token.
HeldCredential(c) ==
    /\ sessionRes[c].state = "resolved"
    /\ sessionRes[c].error = Null
    /\ HasToken(sessionRes[c].session)

(***************************************************************************)
(* C1: every call invokes refreshSession at most once and issues at most   *)
(* two network requests, whatever the server and the provider answer.      *)
(***************************************************************************)
C1_AtMostOneRefreshTwoRequests ==
    \A c \in Calls : refreshCalls[c] <= 1 /\ NetCalls(c) <= 2

\* A call whose two attempts were both answered 401 has finished.
C1_Witness ==
    \E c \in Calls :
        /\ Done(c)
        /\ Got(c, 1, Unauthorized) /\ Got(c, 2, Unauthorized)
        /\ refreshCalls[c] = 1
        /\ NetCalls(c) = 2

(***************************************************************************)
(* C2: after a 401 on the first attempt and a refresh that yields a        *)
(* session, the call has issued exactly two requests, the second with      *)
(* Authorization = Bearer <refreshed token>, and what it returns is the    *)
(* second response, whatever its status.                                   *)
(***************************************************************************)
C2_RetryCarriesRefreshedToken ==
    \A c \in Calls :
        (Got(c, 1, Unauthorized) /\ RefreshSucceeded(c)) =>
            /\ NetCalls(c) = 2
            /\ sent[c][2].Authorization =
                   Bearer(refreshRes[c].session.access_token)
            /\ (outcome[c].kind = "returned" =>
                    /\ GotResponse(c, 2)
                    /\ outcome[c].response = received[c][2])
            /\ (GotResponse(c, 2) => outcome[c] = Returned(received[c][2]))

\* The session held tokA, the refresh yielded tokB, the retry was answered
\* 500 and that response was returned.
C2_Witness ==
    \E c \in Calls :
        /\ Done(c)
        /\ NetCalls(c) = 2
        /\ sent[c][1].Authorization = "Bearer tokA"
        /\ Got(c, 1, Unauthorized)
        /\ refreshRes[c] = Resolved(SessionOf("tokB"), Null)
        /\ sent[c][2].Authorization = "Bearer tokB"
        /\ outcome[c] = Returned(Resp(500, 2))

(***************************************************************************)
(* C3: after a 401 on the first attempt and a refresh that resolves with   *)
(* an error result or with no session, the finished call has issued        *)
(* exactly one request, invoked signOut exactly once and failed with       *)
(* SessionExpired.                                                         *)
(***************************************************************************)
C3_RefreshFailureExpiresSession ==
    \A c \in Calls :
        (Done(c) /\ Got(c, 1, Unauthorized) /\ RefreshFailed(c)) =>
            /\ NetCalls(c) = 1
            /\ signOutCalls[c] = 1
            /\ outcome[c] = Thrown(SessionExpired)

(***************************************************************************)
(* C4: when the session holds a credential and the first attempt is        *)
(* answered with a status other than 401, the call issues exactly one      *)
(* request, returns that very response, and invokes neither refreshSession *)
(* nor signOut.                                                            *)
(***************************************************************************)
C4_Non401PassesThrough ==
    \A c \in Calls :
        (HeldCredential(c) /\ GotResponse(c, 1)
            /\ received[c][1].status # Unauthorized) =>
            /\ Done(c)
            /\ NetCalls(c) = 1
            /\ outcome[c] = Returned(received[c][1])
            /\ refreshCalls[c] = 0
            /\ signOutCalls[c] = 0

\* Two calls returned their first response: one a 200, one a 500.
C4_Witness ==
    \E c, d \in Calls :
        /\ outcome[c] = Returned(Resp(200, 1))
        /\ outcome[d] = Returned(Resp(500, 1))

(***************************************************************************)
(* C5: when getSession resolves with an error result, the call fails with  *)
(* SessionUnavailable, issues no request and invokes neither               *)
(* refreshSession nor signOut.                                             *)
(***************************************************************************)
C5_SessionErrorFailsWithoutRequest ==
    \A c \in Calls :
        (sessionRes[c].state = "resolved" /\ sessionRes[c].error # Null) =>
            /\ outcome[c] = Thrown(SessionUnavailable)
            /\ NetCalls(c) = 0
            /\ refreshCalls[c] = 0
            /\ signOutCalls[c] = 0

\* A call got an error result from getSession although a session is stored.
C5_Witness ==
    \E c \in Calls :
        /\ Done(c)
        /\ sessionRes[c] = Resolved(NoSession, AuthError)
        /\ HasToken(session)

(***************************************************************************)
(* C6: when getSession itself raises, the failure the call raises is       *)
(* SessionUnavailable, and no request is issued.                           *)
(***************************************************************************)
C6_GetSessionThrowIsSessionUnavailable ==
    \A c \in Calls :
        (Done(c) /\ sessionRes[c] = Rejected) =>
            /\ outcome[c] = Thrown(SessionUnavailable)
            /\ NetCalls(c) = 0

(***************************************************************************)
(* C7: when getSession resolves without error but with no session or with  *)
(* an empty access token, the call fails with NoCredential, issues no      *)
(* request, invokes neither refreshSession nor signOut, and the step that  *)
(* fails it leaves the stored session as it was.                           *)
(***************************************************************************)
C7_NoTokenState ==
    \A c \in Calls :
        (sessionRes[c].state = "resolved" /\ sessionRes[c].error = Null
            /\ ~HasToken(sessionRes[c].session)) =>
            /\ outcome[c] = Thrown(NoCredential)
            /\ NetCalls(c) = 0
            /\ refreshCalls[c] = 0
            /\ signOutCalls[c] = 0

C7_NoTokenStep ==
    \A c \in Calls :
        (pc[c] = "getSession" /\ outcome'[c] = Thrown(NoCredential)) =>
            session' = session

C7_NoCredentialFailsWithoutRequest ==
    [](C7_NoTokenState) /\ [][C7_NoTokenStep]_vars

\* A call read a session whose access token is empty and failed with
\* NoCredential.
C7_Witness ==
    \E c \in Calls :
        /\ sessionRes[c] = Resolved(SessionOf(""), Null)
        /\ outcome[c] = Thrown(NoCredential)

(***************************************************************************)
(* C8: a fetch() that rejects ends the call with that failure: no further  *)
(* request is issued, and when it was the first attempt neither            *)
(* refreshSession nor signOut is invoked.                                  *)
(***************************************************************************)
C8_TransportFailurePropagates ==
    \A c \in Calls : \A i \in 1..Len(received[c]) :
        FetchFailed(c, i) =>
            /\ outcome[c] = Thrown(NetworkError)
            /\ NetCalls(c) = i
            /\ Len(received[c]) = i
            /\ (i = 1 => refreshCalls[c] = 0 /\ signOutCalls[c] = 0)

\* One call failed on its first attempt, another on its retry.
C8_Witness ==
    \E c, d \in Calls :
        /\ FetchFailed(c, 1) /\ Done(c)
        /\ FetchFailed(d, 2) /\ Done(d)

(***************************************************************************)
(* C9: when the retry is answered 401 again, the call returns that 401     *)
(* response with one refreshSession, two requests and no signOut, and the  *)
(* step that returns it leaves the stored session as it was.               *)
(***************************************************************************)
C9_Second401State ==
    \A c \in Calls :
        Got(c, 2, Unauthorized) =>
            /\ outcome[c] = Returned(received[c][2])
            /\ refreshCalls[c] = 1
            /\ NetCalls(c) = 2
            /\ signOutCalls[c] = 0

C9_Second401Step ==
    \A c \in Calls :
        (pc[c] = "fetch2" /\ pc'[c] # "fetch2") =>
            /\ session' = session
            /\ pc'[c] = "done"

C9_Second401Returned ==
    [](C9_Second401State) /\ [][C9_Second401Step]_vars

\* A call returned the 401 of its retry and the session its refresh stored
\* is still the stored one.
C9_Witness ==
    \E c \in Calls :
        /\ outcome[c] = Returned(Resp(Unauthorized, 2))
        /\ RefreshSucceeded(c)
        /\ session = refreshRes[c].session

(***************************************************************************)
(* C10: when the first attempt is answered 401 and refreshSession raises,  *)
(* the call still invokes signOut exactly once and fails with              *)
(* SessionExpired.                                                         *)
(***************************************************************************)
C10_RefreshThrowExpiresSession ==
    \A c \in Calls :
        (Done(c) /\ Got(c, 1, Unauthorized) /\ refreshRes[c] = Rejected) =>
            /\ signOutCalls[c] = 1
            /\ outcome[c] = Thrown(SessionExpired)

(***************************************************************************)
(* C12: under LiveSpec (every awaited provider call and fetch() settles)   *)
(* every call that was started reaches a terminal outcome, a returned      *)
(* response or a raised failure, also when every attempt is answered 401.  *)
(***************************************************************************)
C12_EveryCallTerminates ==
    \A c \in Calls : (pc[c] = "getSession") ~> (Done(c) /\ outcome[c] # Pending)

\* Every call has finished, one of them after two 401 answers.
C12_Witness ==
    /\ \A c \in Calls : Done(c) /\ outcome[c] # Pending
    /\ \E c \in Calls : Got(c, 1, Unauthorized) /\ Got(c, 2, Unauthorized)

(***************************************************************************)
(* The per-call state machine of the design, read off a call's position.   *)
(* RefreshOK is passed within the step that issues the retry.              *)
(***************************************************************************)
IsSuccessStatus(status) == status < 400

State(c) ==
    CASE pc[c] \in {"idle", "getSession"} -> "Start"
      [] pc[c] = "fetch1" -> "Attempt1"
      [] pc[c] = "refreshSession" -> "NeedsRefresh"
      [] pc[c] = "signOut" -> "RefreshFailed"
      [] pc[c] = "fetch2" -> "Attempt2"
      [] OTHER ->
           IF outcome[c].kind = "returned"
             THEN IF IsSuccessStatus(outcome[c].response.status) THEN "Success"
                  ELSE IF Len(received[c]) = 1 THEN "NonAuthError"
                  ELSE "Error"
           ELSE IF outcome[c].kind = "thrown"
             THEN IF outcome[c].error = SessionExpired THEN "Terminated"
                  ELSE IF outcome[c].error = NetworkError
                    THEN IF Len(received[c]) = 1 THEN "NonAuthError"
                         ELSE "Error"
                  ELSE "Failed"
           ELSE "Unknown"

\* The transitions the design lists.
ListedTransitions ==
    { <<"Start", "Attempt1">>,
      <<"Attempt1", "Success">>, <<"Attempt1", "NonAuthError">>,
      <<"Attempt1", "NeedsRefresh">>,
      <<"NeedsRefresh", "Attempt2">>,
      <<"Attempt2", "Success">>, <<"Attempt2", "Error">>,
      <<"NeedsRefresh", "RefreshFailed">>,
      <<"RefreshFailed", "Terminated">> }

\* The transitions by which a call fails outside that list: getSession
\* fails or yields no token, refreshSession raises, signOut raises.
FailureTransitions ==
    { <<"Start", "Failed">>, <<"NeedsRefresh", "Failed">>,
      <<"RefreshFailed", "Failed">> }

TerminalStates == {"Success", "NonAuthError", "Error", "Terminated", "Failed"}

C14_ProviderCallsState ==
    \A c \in Calls :
        /\ refreshCalls[c] > 0 => Got(c, 1, Unauthorized)
        /\ signOutCalls[c] > 0 =>
               /\ refreshCalls[c] > 0
               /\ refreshRes[c].state # "unsettled"
               /\ ~RefreshSucceeded(c)

C14_SessionWriteStep ==
    session' # session =>
        \E c \in Calls :
            \/ pc[c] = "refreshSession" /\ refreshRes'[c] # refreshRes[c]
            \/ pc[c] = "signOut" /\ signOutRes'[c] # signOutRes[c]

C14_OnlyRefreshAndSignOutWrite ==
    [](C14_ProviderCallsState) /\ [][C14_SessionWriteStep]_vars

\* A call has signed out after its refresh yielded no session, and the
\* stored session is gone.
C14_Witness ==
    \E c \in Calls :
        /\ signOutCalls[c] = 1
        /\ refreshRes[c] = Resolved(NoSession, Null)
        /\ signOutRes[c] = Resolved(NoSession, Null)
        /\ session = NoSession

(***************************************************************************)
(* C15: with several calls in flight, every call whose first attempt was   *)
(* answered 401 has invoked refreshSession itself: the number of           *)
(* invocations over all calls equals the number of such calls, and each    *)
(* call stays within one refresh and two requests.                         *)
(***************************************************************************)
RECURSIVE SumRefreshCalls(_)
SumRefreshCalls(S) ==
    IF S = {} THEN 0
    ELSE LET c == CHOOSE x \in S : TRUE
         IN  refreshCalls[c] + SumRefreshCalls(S \ {c})

C15_EachCallRefreshesItself ==
    /\ SumRefreshCalls(Calls) =
           Cardinality({c \in Calls : Got(c, 1, Unauthorized)})
    /\ \A c \in Calls :
           /\ refreshCalls[c] = IF Got(c, 1, Unauthorized) THEN 1 ELSE 0
           /\ NetCalls(c) <= 2

\* Two calls wait on their own refreshSession at the same time.
C15_Witness ==
    \E c, d \in Calls :
        /\ c # d
        /\ pc[c] = "refreshSession" /\ pc[d] = "refreshSession"
        /\ refreshCalls[c] = 1 /\ refreshCalls[d] = 1

(***************************************************************************)
(* C16: the wrapper keeps no state between calls: a call that returns a    *)
(* response returns the last response its own fetch() received, so two     *)
(* successful calls make two requests; and two calls that observed the     *)
(* same provider results and server responses are in the same position     *)
(* with the same requests, counters and outcome.                           *)
(***************************************************************************)
SameObservations(c, d) ==
    /\ options[c] = options[d]
    /\ sessionRes[c] = sessionRes[d]
    /\ received[c] = received[d]
    /\ refreshRes[c] = refreshRes[d]
    /\ signOutRes[c] = signOutRes[d]

C16_StatelessAcrossCalls ==
    /\ \A c \in Calls :
           outcome[c].kind = "returned" =>
               /\ NetCalls(c) >= 1
               /\ Len(received[c]) = NetCalls(c)
               /\ outcome[c].response = received[c][Len(received[c])]
    /\ \A c, d \in Calls :
           (pc[c] # "idle" /\ pc[d] # "idle" /\ SameObservations(c, d)) =>
               /\ pc[c] = pc[d]
               /\ sent[c] = sent[d]
               /\ accessToken[c] = accessToken[d]
               /\ refreshCalls[c] = refreshCalls[d]
               /\ signOutCalls[c] = signOutCalls[d]
               /\ outcome[c] = outcome[d]

\* Two calls were both answered 200 on their first attempt: each issued
\* its own request and returned its own response.
C16_Witness ==
    \E c, d \in Calls :
        /\ c # d
        /\ outcome[c] = Returned(Resp(200, 1)) /\ NetCalls(c) = 1
        /\ outcome[d] = Returned(Resp(200, 1)) /\ NetCalls(d) = 1

(***************************************************************************)
(* C11: on the first attempt and on the retry, whatever headers the caller *)
(* passed, the request on the wire carries authorization = Bearer <the     *)
(* credential of that attempt> and content-type = application/json, and    *)
(* nothing the caller supplied in their place or next to them.             *)
(***************************************************************************)
C11_InjectedHeadersWin ==
    \A c \in Calls : \A i \in 1..Len(wire[c]) :
        /\ HeaderValue(wire[c][i].headers, "authorization") =
               sent[c][i].Authorization
        /\ HeaderValue(wire[c][i].headers, "content-type") = "application/json"

(***************************************************************************)
(* C17: a call made through getWithAuth, postWithAuth, putWithAuth or      *)
(* deleteWithAuth is one fetchWithAuth call with that function's method:   *)
(* every request it puts on the wire, the retry included, has this method  *)
(* and the url and body of the call, it makes one request per attempt and  *)
(* at most two, and what it returns is the last response it received.      *)
(***************************************************************************)
FixedMethod(entry) ==
    CASE entry = "getWithAuth" -> "GET"
      [] entry = "postWithAuth" -> "POST"
      [] entry = "putWithAuth" -> "PUT"
      [] entry = "deleteWithAuth" -> "DELETE"
      [] OTHER -> ""

C17_ConvenienceIsRequest ==
    \A c \in Calls :
        FixedMethod(options[c].entry) # "" =>
            /\ Len(wire[c]) = NetCalls(c)
            /\ NetCalls(c) <= 2
            /\ refreshCalls[c] <= 1
            /\ \A i \in 1..Len(wire[c]) :
                   /\ wire[c][i].method = FixedMethod(options[c].entry)
                   /\ wire[c][i].url = options[c].url
                   /\ wire[c][i].body = options[c].body
                   /\ wire[c][i].url \in {EndpointUrl(path) : path \in Paths}
            /\ (outcome[c].kind = "returned" =>
                    outcome[c].response = received[c][Len(received[c])])

\* A postWithAuth call with a body was answered 401, refreshed, and its
\* retry went out as the same POST.
C17_Witness ==
    \E c \in Calls :
        /\ options[c].entry = "postWithAuth"
        /\ Done(c)
        /\ Len(wire[c]) = 2
        /\ wire[c][2].method = "POST"
        /\ wire[c][2].body = JsString("{\"content\":\"hello\"}")
        /\ outcome[c] = Returned(Resp(200, 2))

(***************************************************************************)
(* C18: for postWithAuth and putWithAuth the request carries the JSON      *)
(* encoding of the body whenever the caller supplied one, and no body only *)
(* when the caller supplied none; this for every supplied value, {} and    *)
(* the falsy 0, false and "" included.                                     *)
(***************************************************************************)
C18_BodyIsJsonOfSuppliedValue ==
    \A c \in Calls :
        options[c].entry \in {"postWithAuth", "putWithAuth"} =>
            /\ (options[c].param # Undefined =>
                    options[c].body = JsString(JsonStringify(options[c].param)))
            /\ (options[c].body = Undefined => options[c].param = Undefined)
            /\ \A i \in 1..Len(wire[c]) : wire[c][i].body = options[c].body

(***************************************************************************)
(* C20: the step in which a call fails with SessionExpired leaves the App  *)
(* without accessToken and userId, showing AuthPage, and the App leaves    *)
(* that state only in a step in which a refreshSession yields a session.   *)
(***************************************************************************)
C20_ExpiryStep ==
    \A c \in Calls :
        (outcome[c] = Pending /\ outcome'[c] = Thrown(SessionExpired)) =>
            /\ app' = SignedOutApp
            /\ ShowsAuthPage(app')

C20_ReauthStep ==
    (ShowsAuthPage(app) /\ ~ShowsAuthPage(app')) =>
        \E c \in Calls :
            /\ pc[c] = "refreshSession"
            /\ refreshRes'[c].state = "resolved"
            /\ refreshRes'[c].session.present

C20_SessionExpiredSignsAppOut ==
    [][C20_ExpiryStep]_vars /\ [][C20_ReauthStep]_vars

(***************************************************************************)
(* C19: on every route that verifies the token, the response is 401        *)
(* exactly when the token is missing, malformed or expired: such a request *)
(* is answered 401, on the like-check and follow-check routes too, and a   *)
(* request with a valid token is never answered 401.                       *)
(***************************************************************************)
HasValidToken(authHeader) ==
    /\ Len(authHeader) = 2
    /\ authHeader[1] = "Bearer"
    /\ authHeader[2] \in ValidTokens

C19_Unauthorized401Exactly ==
    (srvPc = "responded" /\ srvRequest.route \in AuthRoutes) =>
        (srvResponse.status = Unauthorized
            <=> ~HasValidToken(srvRequest.authHeader))

(***************************************************************************)
(* The UI action handlers that call the wrapper inside try/catch: what the *)
(* catch block of each one shows for the error it caught.                  *)
(***************************************************************************)
UiHandlers ==
    { "handleCreatePost", "handleDeletePost", "handleLike",
      "handleAddComment", "handleToggleFollow", "handleSave" }

\* The handlers whose catch block tests
\* error.message.includes('login again').
ChecksLoginAgain(handler) ==
    handler \in {"handleCreatePost", "handleLike", "handleToggleFollow",
                 "handleSave"}

\* message.includes('login again'): the three messages fetchWithAuth
\* builds end in "Please login again."; the provider's exceptions, the
\* rejection of fetch() and the error texts of the backend do not hold it.
IncludesLoginAgain(message) ==
    message \in { "Failed to get session. Please login again.",
                  "No access token available. Please login again.",
                  "Session expired. Please login again." }

LoginAgainToast == "Sesi Anda telah berakhir. Silakan login kembali."

\* The message of the Error a handler throws itself for a response that is
\* not ok (data.error of the backend, or the handler's fallback text).
HttpError == "HttpError"

\* toast.error(...) of the catch block for an error with this message.
CatchToast(handler, message) ==
    IF ChecksLoginAgain(handler) /\ IncludesLoginAgain(message)
      THEN LoginAgainToast
      ELSE message

\* What the handler shows for the outcome of its wrapper call: a thrown
\* error and a response that is not ok both end in the catch block.
HandlerToast(handler, o) ==
    IF o.kind = "thrown" THEN CatchToast(handler, o.error)
    ELSE IF o.kind = "returned" /\ ~IsSuccessStatus(o.response.status)
      THEN CatchToast(handler, HttpError)
    ELSE "success"

\* The failures fetchWithAuth raises itself.
WrapperRaised(o) ==
    /\ o.kind = "thrown"
    /\ o.error \in {SessionUnavailable, NoCredential, SessionExpired}

(***************************************************************************)
(* C21: whatever way a call ends, every UI action handler that uses the    *)
(* wrapper (create post, delete post, like, comment, follow, save profile) *)
(* shows the log-in-again message exactly when the call failed with one of *)
(* the wrapper's own errors (SessionExpired, NoCredential,                 *)
(* SessionUnavailable), and not for an HTTP error response or a network    *)
(* failure.                                                                *)
(***************************************************************************)
C21_WrapperFailuresPromptLogin ==
    \A c \in Calls, handler \in UiHandlers :
        Done(c) =>
            ((HandlerToast(handler, outcome[c]) = LoginAgainToast)
                <=> WrapperRaised(outcome[c]))

(***************************************************************************)
(* C22: when the first attempt was answered 401, the refresh failed and    *)
(* signOut itself failed, by resolving with an error or by raising, the    *)
(* call still ends in SessionExpired and signOut was invoked only once.    *)
(***************************************************************************)
C22_TerminateFailureStillExpires ==
    \A c \in Calls :
        ( /\ Got(c, 1, Unauthorized)
          /\ RefreshFailed(c)
          /\ \/ signOutRes[c].state = "rejected"
             \/ signOutRes[c].state = "resolved" /\ signOutRes[c].error # Null )
        => /\ outcome[c] = Thrown(SessionExpired)
           /\ signOutCalls[c] = 1

(***************************************************************************)
(* C23: in every interleaving of concurrent calls a call reads the session *)
(* once, at its start: its first request carries the credential it read    *)
(* then and its retry carries the credential of its own refresh, whatever  *)
(* another call has stored or removed in between; and the sign-out forced  *)
(* by one call can remove the session another call has just refreshed.     *)
(***************************************************************************)
C23_OwnCredentialsState ==
    \A c \in Calls :
        /\ NetCalls(c) >= 1 =>
              /\ HeldCredential(c)
              /\ sent[c][1].Authorization =
                     Bearer(sessionRes[c].session.access_token)
        /\ NetCalls(c) >= 2 =>
              /\ RefreshSucceeded(c)
              /\ sent[c][2].Authorization =
                     Bearer(refreshRes[c].session.access_token)
        /\ NetCalls(c) <= 2

\* getSession settles once per call, and a step of another call changes
\* neither the credential a call holds nor the requests it has issued.
C23_ReadOnceStep ==
    \A c \in Calls :
        /\ sessionRes[c].state # "unsettled" => sessionRes'[c] = sessionRes[c]
        /\ pc'[c] = pc[c] =>
              /\ accessToken'[c] = accessToken[c]
              /\ sent'[c] = sent[c]

C23_CallsKeepOwnCredentials ==
    []C23_OwnCredentialsState /\ [][C23_ReadOnceStep]_vars

\* Call c has refreshed the session and waits for its retry, which carries
\* the refreshed credential, while the signOut forced by call d has removed
\* the session c had just stored.
C23_Witness ==
    \E c, d \in Calls :
        /\ c # d
        /\ RefreshSucceeded(c)
        /\ pc[c] = "fetch2"
        /\ NetCalls(c) = 2
        /\ sent[c][2].Authorization =
               Bearer(refreshRes[c].session.access_token)
        /\ RefreshFailed(d)
        /\ signOutRes[d] = Resolved(NoSession, Null)
        /\ session = NoSession

(***************************************************************************)
(* Observations of the store routes.                                       *)
(***************************************************************************)
\* No handler is between two of its store operations.
Quiescent == \A h \in Handlers : req[h].pc \in {"idle", "responded"}

\* Handler h answers in this step.
Answers(h) == req'[h].pc = "responded" /\ req'[h] # req[h]

\* Handler h answers in this step before any store operation of its own
\* has written.
AnswersUnwritten(h, readLabel) ==
    Answers(h) /\ req[h].pc \in {"idle", "responded", readLabel}

StoredKeys(kind) == {k \in DOMAIN kv : k[1] = kind}

(***************************************************************************)
(* C24: once every toggle-like, add-comment and delete-post request has    *)
(* been answered, whatever their interleaving, the store holds no like and *)
(* no comment of a post that is not stored.                                *)
(***************************************************************************)
C24_NoOrphansAfterDelete ==
    Quiescent =>
        \A k \in StoredKeys("like") \cup StoredKeys("comment") :
            PostKey(k[2]) \in DOMAIN kv

(***************************************************************************)
(* C25: with requests served one after the other, a toggle-like on an      *)
(* existing post flips the caller's like record for that post and no       *)
(* other record (so two successive toggles leave it as it was), and it     *)
(* answers liked: true exactly when the record exists afterwards.          *)
(***************************************************************************)
C25_ToggleStep ==
    \A h \in Handlers :
        (At(h, "POST /posts/:id/like", "writeLike") /\ Answers(h)) =>
            LET k == LikeKey(req[h].param, req[h].auth.user)
            IN  /\ (k \in DOMAIN kv') # (k \in DOMAIN kv)
                /\ (k \in DOMAIN kv') = (req'[h].response.body = "liked:true")
                /\ (k \notin DOMAIN kv') =
                       (req'[h].response.body = "liked:false")
                /\ DOMAIN kv' \ {k} = DOMAIN kv \ {k}

C25_ToggleIsInvolution == [][C25_ToggleStep]_vars

\* The second toggle of user-2 on post-1 has answered liked: false and the
\* like record of the first toggle is gone again.
C25_Witness ==
    \E h \in Handlers :
        /\ req[h].pc = "responded"
        /\ req[h].route = "POST /posts/:id/like"
        /\ req[h].auth.user = "user-2"
        /\ req[h].param = "post-1"
        /\ req[h].response = Reply(200, "liked:false")
        /\ PostKey("post-1") \in DOMAIN kv
        /\ LikeKey("post-1", "user-2") \notin DOMAIN kv

(***************************************************************************)
(* C26: a post leaves the store only in a step of a delete-post request    *)
(* whose verified caller is the owner stored in the post; and a            *)
(* delete-post request of an unverified caller answers 401, of a missing   *)
(* post 404, of a caller who is not the owner 403, each time without       *)
(* having changed the store.                                               *)
(***************************************************************************)
C26_DeleteStep ==
    /\ \A k \in StoredKeys("post") :
           k \notin DOMAIN kv' =>
               \E h \in Handlers :
                   /\ req[h].route = "DELETE /posts/:id"
                   /\ req'[h] # req[h]
                   /\ req[h].param = k[2]
                   /\ req[h].auth.error = Null
                   /\ req[h].auth.user = kv[k].userId
    /\ \A h \in Handlers :
           (req'[h].route = "DELETE /posts/:id" /\ Answers(h)) =>
               /\ req'[h].response.status \in {401, 403, 404} =>
                      /\ kv' = kv
                      /\ AnswersUnwritten(h, "getPost")
               /\ AnswersUnwritten(h, "getPost") =>
                      req'[h].response.status =
                          IF req'[h].auth.error # Null THEN 401
                          ELSE IF PostKey(req'[h].param) \notin DOMAIN kv
                            THEN 404
                          ELSE 403
               /\ (AnswersUnwritten(h, "getPost")
                     /\ req'[h].auth.error = Null
                     /\ PostKey(req'[h].param) \in DOMAIN kv) =>
                      kv[PostKey(req'[h].param)].userId # req'[h].auth.user

C26_OnlyOwnerDeletes == [][C26_DeleteStep]_vars

\* user-2 asked to delete post-1 of user-1 and was answered 403: the post,
\* a like and a comment of it are still stored.
C26_Witness ==
    \E h \in Handlers :
        /\ req[h].pc = "responded"
        /\ req[h].route = "DELETE /posts/:id"
        /\ req[h].auth.user = "user-2"
        /\ req[h].param = "post-1"
        /\ req[h].response.status = 403
        /\ PostKey("post-1") \in DOMAIN kv
        /\ \E k \in StoredKeys("like") : k[2] = "post-1"
        /\ \E k \in StoredKeys("comment") : k[2] = "post-1"

(***************************************************************************)
(* C27: with requests served one after the other, the stats a profile      *)
(* request has answered with are the store's follow relation: followers    *)
(* is the number of follow records whose target is that user, following    *)
(* the number of follow records whose follower is that user.               *)
(***************************************************************************)
C27_StatsMatchFollows ==
    \A h \in Handlers :
        ( /\ req[h].pc = "responded"
          /\ req[h].route = "GET /users/:id"
          /\ req[h].response.status = 200 ) =>
            /\ req[h].response.followers =
                   Cardinality({k \in StoredKeys("follow") :
                                    k[3] = req[h].param})
            /\ req[h].response.following =
                   Cardinality({k \in StoredKeys("follow") :
                                    k[2] = req[h].param})

(***************************************************************************)
(* C28: no follow record has its follower as its target, and the target of *)
(* every follow record is a stored profile; a toggle-follow of a verified  *)
(* caller on themselves answers 400 and one on a user without a profile    *)
(* answers 404, and a request answered 400 or 404 has not changed the      *)
(* store.                                                                  *)
(***************************************************************************)
C28_FollowState ==
    \A k \in StoredKeys("follow") :
        /\ k[2] # k[3]
        /\ UserKey(k[3]) \in DOMAIN kv
        /\ kv[k].userId = k[2]
        /\ kv[k].followingId = k[3]

C28_FollowStep ==
    /\ \A k \in {x \in DOMAIN kv' : x[1] = "follow"} \ DOMAIN kv :
           UserKey(k[3]) \in DOMAIN kv
    /\ \A h \in Handlers :
           (req'[h].route = "POST /follows/:id" /\ Answers(h)) =>
               /\ req'[h].response.status \in {400, 404} =>
                      /\ kv' = kv
                      /\ AnswersUnwritten(h, "getUser")
               /\ (req'[h].auth.error = Null
                     /\ req'[h].param = req'[h].auth.user) =>
                      req'[h].response.status = 400
               /\ (req'[h].auth.error = Null
                     /\ req'[h].param # req'[h].auth.user
                     /\ UserKey(req'[h].param) \notin DOMAIN kv) =>
                      req'[h].response.status = 404

C28_NoSelfOrUnknownFollow == []C28_FollowState /\ [][C28_FollowStep]_vars

\* A follow record is stored while one request to follow oneself has been
\* answered 400 and one to follow a user without a profile 404.
C28_Witness ==
    \E h, g \in Handlers :
        /\ StoredKeys("follow") # {}
        /\ req[h].pc = "responded"
        /\ req[h].route = "POST /follows/:id"
        /\ req[h].param = req[h].auth.user
        /\ req[h].response.status = 400
        /\ req[g].pc = "responded"
        /\ req[g].route = "POST /follows/:id"
        /\ req[g].auth.error = Null
        /\ req[g].param = "user-9"
        /\ req[g].response.status = 404

(***************************************************************************)
(* C29: every stored post has a trimmed, non-empty content of at most 280  *)
(* characters, and create-post writes it with userId = the verified        *)
(* caller; a create-post of a verified caller with a missing, empty,       *)
(* whitespace-only or over-280 content answers 400, and a request answered *)
(* 400 has written neither a post nor a profile.                           *)
(***************************************************************************)
C29_PostState ==
    \A k \in StoredKeys("post") :
        /\ kv[k].content.kind = "string"
        /\ kv[k].content.lead = 0
        /\ kv[k].content.trail = 0
        /\ kv[k].content.body >= 1
        /\ kv[k].content.body <= 280

C29_CreateStep ==
    \A h \in Handlers :
        /\ (At(h, "POST /posts", "setPost") /\ Answers(h)) =>
               /\ req[h].auth.error = Null
               /\ PostKey(req[h].uuid) \notin DOMAIN kv
               /\ PostKey(req[h].uuid) \in DOMAIN kv'
               /\ kv'[PostKey(req[h].uuid)].userId = req[h].auth.user
               /\ kv'[PostKey(req[h].uuid)].id = req[h].uuid
               /\ kv'[PostKey(req[h].uuid)].content.body = req[h].content.body
        /\ (req'[h].route = "POST /posts" /\ Answers(h)) =>
               /\ req'[h].response.status = 400 =>
                      /\ kv' = kv
                      /\ AnswersUnwritten(h, "started")
               /\ ( /\ req'[h].auth.error = Null
                    /\ \/ req'[h].content.kind = "undefined"
                       \/ /\ req'[h].content.kind = "string"
                          /\ \/ req'[h].content.body = 0
                             \/ req'[h].content.lead + req'[h].content.body
                                    + req'[h].content.trail > 280 ) =>
                      req'[h].response.status = 400

C29_PostsAreValid == []C29_PostState /\ [][C29_CreateStep]_vars

\* user-3, who had no profile, has written a post of 280 characters, and a
\* later request with 280 characters and a leading blank was answered 400.
C29_Witness ==
    \E h \in Handlers :
        /\ UserKey("user-3") \in DOMAIN kv
        /\ \E k \in StoredKeys("post") :
               /\ kv[k].userId = "user-3"
               /\ kv[k].content = Text(0, 280, 0)
        /\ req[h].pc = "responded"
        /\ req[h].route = "POST /posts"
        /\ req[h].content = Text(1, 280, 0)
        /\ req[h].response.status = 400

(***************************************************************************)
(* C30: seeding happens at most once: once every seed-users request,       *)
(* sequential or concurrent, has been answered, the store holds the five   *)
(* seed users and exactly five sample posts.                               *)
(***************************************************************************)
C30_SeededOnce ==
    (Quiescent /\ SeedDoneKey \in DOMAIN kv) =>
        /\ \A i \in 1..5 : UserKey(SeedUserIds[i]) \in DOMAIN kv
        /\ Cardinality({k \in StoredKeys("post") :
                            \E i \in 1..5 : kv[k].userId = SeedUserIds[i]}) = 5

====
